---- MODULE Spec2Model ----
(***************************************************************************)
(* The sandwich inspector of brontes-inspect (sandwich.rs): the two       *)
(* candidate scans over a block tree, their union, and the validation and *)
(* scoring of every candidate by process_tree / calculate_sandwich.       *)
(***************************************************************************)
EXTENDS Integers, Sequences, FiniteSets, TLC

\* Largest number of transaction roots of a block.
MaxTxs == 5

\* Option of a record: the record, or None
None == [none |-> TRUE]

\* Option of any other value: Some(x), or Nothing
Nothing == <<>>

Some(x) == <<x>>

----------------------------------------------------------------------------
\* Generic helpers for sequences and maps (HashMap as a function)

Range(s) == {s[i] : i \in 1..Len(s)}

Last(s) == s[Len(s)]

\* Vec::pop : the vector without its last element
Front(s) == SubSeq(s, 1, Len(s) - 1)

RECURSIVE Flatten(_)
Flatten(ss) == IF ss = <<>> THEN <<>> ELSE Head(ss) \o Flatten(Tail(ss))

RECURSIVE SumSeq(_)
SumSeq(s) == IF s = <<>> THEN 0 ELSE Head(s) + SumSeq(Tail(s))

\* HashMap::insert
Put(m, k, v) == [x \in DOMAIN m \cup {k} |-> IF x = k THEN v ELSE m[x]]

\* A remove that leaves the entry in the map
RemoveNothing(m, k) == m

\* HashMap::remove
Remove(m, k) == [x \in DOMAIN m \ {k} |-> m[x]]

EmptyMap == [x \in {} |-> None]

\* All the orders in which the elements of a finite set can be iterated
RECURSIVE Orders(_)
Orders(S) == IF S = {} THEN {<<>>}
             ELSE UNION {{<<x>> \o t : t \in Orders(S \ {x})} : x \in S}

----------------------------------------------------------------------------
\* Data model: actions, gas details, transaction roots, the block tree

\* Actions::Swap (NormalizedSwap)
Swap(pool, tin, tout, ain, aout) ==
    [type |-> "Swap", pool |-> pool, token_in |-> tin, token_out |-> tout,
     amount_in |-> ain, amount_out |-> aout]

\* Actions::Transfer
Transfer(from, to, token, amount) ==
    [type |-> "Transfer", from |-> from, to |-> to, token |-> token, amount |-> amount]

\* Any other action of the tree (a call that is neither a swap nor a transfer)
Other == [type |-> "Other"]

is_swap(a) == a.type = "Swap"

is_transfer(a) == a.type = "Transfer"

\* B256 transaction hashes: distinct values, unrelated to the block position
TxHashes == <<"h3", "h6", "h2", "h5", "h1", "h4", "h7">>

\* An externally owned account / a contract used by one transaction only
OwnEoa == <<"u1", "u2", "u3", "u4", "u5", "u6", "u7">>

OwnContract == <<"w1", "w2", "w3", "w4", "w5", "w6", "w7">>

\* The quote token of the inspector (SharedInspectorUtils::quote)
QuoteToken == "T1"

\* The kinds of transaction a block is made of: who sends it, which contract it
\* calls, whether it reverted, and the actions of its trace in pre-order.
\*   BOTH    sent by the searcher's EOA "A" to the searcher's contract "K"
\*   EOA     sent by "A" to a contract of its own
\*   CALLEE  sent by an EOA of its own to "K"
\*   VIC1    an unrelated swap on pool P1;  VIC2  an unrelated swap on pool P2
\*   REV     a reverted transaction of "A" to "K"
\*   IDLE    a transaction of "A" with no swap and no transfer
TxKinds == {"BOTH", "EOA", "CALLEE", "VIC1", "VIC2", "REV", "IDLE"}

\* A transaction of a second searcher: sent by the EOA "B" to the contract "L"
RivalKinds == {"RIVAL"}

KindAddress(k, p) ==
    IF k \in {"BOTH", "EOA", "REV", "IDLE"} THEN "A"
    ELSE IF k = "RIVAL" THEN "B" ELSE OwnEoa[p]

KindTo(k, p) ==
    IF k \in {"BOTH", "CALLEE", "REV"} THEN "K"
    ELSE IF k = "RIVAL" THEN "L" ELSE OwnContract[p]

KindActions(k, p) ==
    CASE k = "BOTH"   -> <<Swap("P2", "T1", "T3", 6, 1)>>
      [] k = "EOA"    -> <<Transfer("A", "P1", "T1", 20), Swap("P1", "T1", "T2", 20, 10)>>
      [] k = "CALLEE" -> <<Swap("P1", "T1", "T2", 20, 10), Other,
                           Transfer("P1", OwnEoa[p], "T2", 10)>>
      [] k = "VIC1"   -> <<Swap("P1", "T1", "T2", 4, 2)>>
      [] k = "VIC2"   -> <<Other, Swap("P2", "T1", "T3", 3, 1)>>
      [] k = "REV"    -> <<Swap("P1", "T1", "T2", 20, 10)>>
      [] k = "IDLE"   -> <<Other>>
      [] k = "RIVAL"  -> <<Swap("P2", "T1", "T3", 5, 1)>>

\* TxRoot at (1-based) index p of tx_roots; its position in the block is 0-based
TxRoot(k, p) ==
    [tx_hash     |-> TxHashes[p],
     position    |-> p - 1,
     address     |-> KindAddress(k, p),
     to          |-> KindTo(k, p),
     revert      |-> (k = "REV"),
     actions     |-> KindActions(k, p),
     gas_details |-> [gas_used |-> p, priority_fee |-> 1, base_fee |-> 1,
                      coinbase_transfer |-> 1]]

\* BlockTree::tx_roots of the block made of the kinds ks
TreeOf(ks) == [p \in 1..Len(ks) |-> TxRoot(ks[p], p)]

\* DexQuotes: one partial map token -> price (in the quote token) per position
DexQuoteAt(pos) ==
    CASE pos = 1 -> [t \in {"T2"} |-> 1]
      [] pos = 3 -> [t \in {"T3"} |-> 2]
      [] pos = 4 -> [t \in {"T2"} |-> 3]
      [] OTHER   -> EmptyMap

\* MetadataCombined of a block of n transactions
Metadata(n) ==
    [block_num |-> 17193367, eth_price |-> 1,
     dex_quotes |-> [i \in 1..n |-> DexQuoteAt(i - 1)]]

\* BlockTree::get_root
get_root(t, h) ==
    IF \E i \in 1..Len(t) : t[i].tx_hash = h
    THEN t[CHOOSE i \in 1..Len(t) : t[i].tx_hash = h]
    ELSE None

\* BlockTree::get_gas_details
get_gas_details(t, h) == IF get_root(t, h) = None THEN None ELSE get_root(t, h).gas_details

\* BlockTree::collect with the inspector's search_fn: the swap and transfer
\* actions of the transaction, in pre-order; collect has no failure, it
\* returns no action for a hash the tree does not hold
collect(t, h) ==
    IF get_root(t, h) = None THEN <<>>
    ELSE SelectSeq(get_root(t, h).actions, LAMBDA a : is_swap(a) \/ is_transfer(a))

\* GasDetails::gas_paid
gas_paid(g) == (g.base_fee + g.priority_fee) * g.gas_used + g.coinbase_transfer

\* The width of the accumulator of the gas sum
U128Bits == 128

\* Amounts of wei are counted in units of 2^WeiUnitBits wei
WeiUnitBits == 120

\* The range of a u128, in units of wei
U128Units == 2^(U128Bits - WeiUnitBits)

\* The sum leaves the range of a u128
sum_u128_overflows(s) == SumSeq(s) >= U128Units

\* .sum::<u128>() where it does not panic: the sum modulo 2^U128Bits
sum_u128(s) == SumSeq(s) % U128Units

----------------------------------------------------------------------------
\* Candidate enumeration: the two scans

\* struct PossibleSandwich
PossibleSandwich(eoa, frontruns, backrun, contract, victims) ==
    [eoa |-> eoa, possible_frontruns |-> frontruns, possible_backrun |-> backrun,
     mev_executor_contract |-> contract, victims |-> victims]

\* The three maps of a scan before the first root
ScanInit == [duplicates |-> EmptyMap, possible_victims |-> EmptyMap,
             possible_sandwiches |-> EmptyMap]

\* UpsertSandwich that starts the candidate anew at every later transaction
UpsertSandwichReplace(ps, key, eoa, prev_tx_hash, root, frontrun_victims) ==
    Put(ps, key, PossibleSandwich(eoa, <<prev_tx_hash>>, root.tx_hash, root.to,
                                  <<frontrun_victims>>))

\* UpsertSandwich that keeps one candidate per backrun, not one per key
UpsertSandwichPerBackrun(ps, key, eoa, prev_tx_hash, root, frontrun_victims) ==
    Put(ps, root.tx_hash, PossibleSandwich(eoa, <<prev_tx_hash>>, root.tx_hash, root.to,
                                           <<frontrun_victims>>))

\* UpsertSandwich that also moves mev_executor_contract to the to_address of
\* every later transaction
UpsertSandwichLatestContract(ps, key, eoa, prev_tx_hash, root, frontrun_victims) ==
    IF key \notin DOMAIN ps
    THEN Put(ps, key, PossibleSandwich(eoa, <<prev_tx_hash>>, root.tx_hash, root.to,
                                       <<frontrun_victims>>))
    ELSE Put(ps, key, [ps[key] EXCEPT
                          !.possible_frontruns = Append(@, prev_tx_hash),
                          !.possible_backrun = root.tx_hash,
                          !.mev_executor_contract = root.to,
                          !.victims = Append(@, frontrun_victims)])

\* possible_sandwiches.entry(key): insert a new candidate or extend the old one
UpsertSandwich(ps, key, eoa, prev_tx_hash, root, frontrun_victims) ==
    IF key \notin DOMAIN ps
    THEN Put(ps, key, PossibleSandwich(eoa, <<prev_tx_hash>>, root.tx_hash, root.to,
                                       <<frontrun_victims>>))
    ELSE Put(ps, key, [ps[key] EXCEPT
                          !.possible_frontruns = Append(@, prev_tx_hash),
                          !.possible_backrun = root.tx_hash,
                          !.victims = Append(@, frontrun_victims)])

\* PushVictim that spares no open transaction: the root is a possible victim
\* of itself too
PushVictimOfItself(pv, root) == [k \in DOMAIN pv |-> Append(pv[k], root.tx_hash)]

\* The loop that closes an iteration: the root becomes a possible victim of
\* every open transaction but itself
PushVictim(pv, root) ==
    [k \in DOMAIN pv |-> IF k # root.tx_hash THEN Append(pv[k], root.tx_hash) ELSE pv[k]]

\* A scan that skips no root
SkipRootNever(root) == FALSE

\* if root.head.data.is_revert() { continue }
SkipRoot(root) == root.revert

\* One iteration of the loop of get_possible_sandwich_duplicate_senders
SenderStep(st, root) ==
    IF SkipRoot(root) THEN st
    ELSE LET key == root.address
             st1 == IF key \notin DOMAIN st.duplicates
                    THEN [st EXCEPT !.duplicates = Put(@, key, root.tx_hash),
                                    !.possible_victims = Put(@, root.tx_hash, <<>>)]
                    ELSE LET prev_tx_hash == st.duplicates[key]
                             found == prev_tx_hash \in DOMAIN st.possible_victims
                         IN [duplicates |-> Put(st.duplicates, key, root.tx_hash),
                             possible_victims |->
                                 Put(Remove(st.possible_victims, prev_tx_hash),
                                     root.tx_hash, <<>>),
                             possible_sandwiches |->
                                 IF found
                                 THEN UpsertSandwich(st.possible_sandwiches, key, key,
                                          prev_tx_hash, root,
                                          st.possible_victims[prev_tx_hash])
                                 ELSE st.possible_sandwiches]
         IN [st1 EXCEPT !.possible_victims = PushVictim(@, root)]

\* The callee scan keyed by the sender, as the sender scan is
ContractStepBySender(st, root) == SenderStep(st, root)

\* ContractStep that stores the sender of the current root as the eoa of a new
\* candidate, as the sender scan does
ContractStepCurrentEoa(st, root) ==
    IF SkipRoot(root) THEN st
    ELSE LET key == root.to
             st1 == IF key \notin DOMAIN st.duplicates
                    THEN [st EXCEPT !.duplicates = Put(@, key, <<root.tx_hash, root.address>>),
                                    !.possible_victims = Put(@, root.tx_hash, <<>>)]
                    ELSE LET prev_tx_hash == st.duplicates[key][1]
                             frontrun_eoa == st.duplicates[key][2]
                             found == prev_tx_hash \in DOMAIN st.possible_victims
                         IN [duplicates |-> Put(st.duplicates, key,
                                                <<root.tx_hash, frontrun_eoa>>),
                             possible_victims |->
                                 Put(Remove(st.possible_victims, prev_tx_hash),
                                     root.tx_hash, <<>>),
                             possible_sandwiches |->
                                 IF found
                                 THEN UpsertSandwich(st.possible_sandwiches, key,
                                          root.address, prev_tx_hash, root,
                                          st.possible_victims[prev_tx_hash])
                                 ELSE st.possible_sandwiches]
         IN [st1 EXCEPT !.possible_victims = PushVictim(@, root)]

\* One iteration of the loop of get_possible_sandwich_duplicate_contracts;
\* duplicates maps the contract to (last tx hash, eoa of the first tx)
ContractStep(st, root) ==
    IF SkipRoot(root) THEN st
    ELSE LET key == root.to
             st1 == IF key \notin DOMAIN st.duplicates
                    THEN [st EXCEPT !.duplicates = Put(@, key, <<root.tx_hash, root.address>>),
                                    !.possible_victims = Put(@, root.tx_hash, <<>>)]
                    ELSE LET prev_tx_hash == st.duplicates[key][1]
                             frontrun_eoa == st.duplicates[key][2]
                             found == prev_tx_hash \in DOMAIN st.possible_victims
                         IN [duplicates |-> Put(st.duplicates, key,
                                                <<root.tx_hash, frontrun_eoa>>),
                             possible_victims |->
                                 Put(Remove(st.possible_victims, prev_tx_hash),
                                     root.tx_hash, <<>>),
                             possible_sandwiches |->
                                 IF found
                                 THEN UpsertSandwich(st.possible_sandwiches, key,
                                          frontrun_eoa, prev_tx_hash, root,
                                          st.possible_victims[prev_tx_hash])
                                 ELSE st.possible_sandwiches]
         IN [st1 EXCEPT !.possible_victims = PushVictim(@, root)]

\* The state of the sender scan after the first n roots
RECURSIVE SenderScan(_, _)
SenderScan(t, n) == IF n = 0 THEN ScanInit ELSE SenderStep(SenderScan(t, n - 1), t[n])

\* The state of the callee scan after the first n roots
RECURSIVE ContractScan(_, _)
ContractScan(t, n) == IF n = 0 THEN ScanInit ELSE ContractStep(ContractScan(t, n - 1), t[n])

\* possible_sandwiches.values(): the candidates of a finished scan
Values(m) == {m[k] : k \in DOMAIN m}

----------------------------------------------------------------------------
\* Token deltas and pricing (SharedInspectorUtils, MetadataCombined, DexQuotes).
\* The amounts, prices and fees of the blocks modelled are whole numbers, so a
\* Rational is held as an integer.

\* The signed flows <<address, token, amount>> one action contributes
DeltaEntries(a) ==
    CASE is_swap(a)     -> << <<a.pool, a.token_in, a.amount_in>>,
                              <<a.pool, a.token_out, 0 - a.amount_out>> >>
      [] is_transfer(a) -> << <<a.from, a.token, 0 - a.amount>>,
                              <<a.to, a.token, a.amount>> >>
      [] OTHER          -> <<>>

\* SharedInspectorUtils::calculate_token_deltas : address -> token -> amount
calculate_token_deltas(actions) ==
    LET flat == Flatten(actions)
        es   == Flatten([i \in 1..Len(flat) |-> DeltaEntries(flat[i])])
        amt(a, t) == SumSeq([i \in 1..Len(es) |->
                                IF es[i][1] = a /\ es[i][2] = t THEN es[i][3] ELSE 0])
    IN [a \in {e[1] : e \in Range(es)} |->
           [t \in {e[2] : e \in {x \in Range(es) : x[1] = a}} |-> amt(a, t)]]

\* DexQuotes::price_at_or_before for Pair(token, quote): the latest quote at a
\* position <= idx, Nothing when there is none
price_at_or_before(quotes, token, idx) ==
    LET at == {i \in 1..Len(quotes) : i - 1 <= idx /\ token \in DOMAIN quotes[i]}
    IN IF token = QuoteToken THEN Some(1)
       ELSE IF at = {} THEN Nothing
       ELSE Some(quotes[CHOOSE i \in at : \A j \in at : j <= i][token])

\* SharedInspectorUtils::usd_delta_by_address (pessimistic = false) :
\* address -> USD, Nothing when a token of the deltas has no price
usd_delta_by_address(idx, deltas, metadata) ==
    LET tokens == UNION {DOMAIN deltas[a] : a \in DOMAIN deltas}
        price(t) == price_at_or_before(metadata.dex_quotes, t, idx)
        usd(a) == LET ts == DOMAIN deltas[a]
                      order == CHOOSE o \in Orders(ts) : TRUE
                  IN SumSeq([i \in 1..Len(order) |-> deltas[a][order[i]] * price(order[i])[1]])
    IN IF \E t \in tokens : price(t) = Nothing THEN Nothing
       ELSE Some([a \in DOMAIN deltas |-> usd(a)])

\* SharedInspectorUtils::profit_collectors
profit_collectors(usd_deltas) == {a \in DOMAIN usd_deltas : usd_deltas[a] > 0}

\* The sum of the gains only
RevenueUsdGains(usd_deltas) ==
    LET order == CHOOSE o \in Orders(DOMAIN usd_deltas) : TRUE
    IN SumSeq([i \in 1..Len(order) |->
                  IF usd_deltas[order[i]] > 0 THEN usd_deltas[order[i]] ELSE 0])

\* addr_usd_deltas.values().fold(Rational::ZERO, |acc, delta| acc + delta)
RevenueUsd(usd_deltas) ==
    LET order == CHOOSE o \in Orders(DOMAIN usd_deltas) : TRUE
    IN SumSeq([i \in 1..Len(order) |-> usd_deltas[order[i]]])

\* MetadataCombined::get_gas_price_usd
get_gas_price_usd(metadata, gas) == metadata.eth_price * gas

\* The number of binary digits of a natural number
RECURSIVE BitLength(_)
BitLength(n) == IF n = 0 THEN 0 ELSE 1 + BitLength(n \div 2)

\* 2^n
RECURSIVE Pow2(_)
Pow2(n) == IF n = 0 THEN 1 ELSE 2 * Pow2(n - 1)

\* The mantissa of an f64
F64Mantissa == 53

\* ToFloatNearest::to_float : the whole number rounded to the nearest (ties to
\* even) number of F64Mantissa significant binary digits
to_float(x) ==
    LET m == IF x < 0 THEN 0 - x ELSE x
        drop == BitLength(m) - F64Mantissa
        unit == Pow2(drop)
        low == m - (m % unit)
        r == IF 2 * (m % unit) > unit \/ (2 * (m % unit) = unit /\ (low \div unit) % 2 = 1)
             THEN low + unit ELSE low
    IN IF drop <= 0 THEN x ELSE IF x < 0 THEN 0 - r ELSE r

----------------------------------------------------------------------------
\* Validation and scoring: process_tree and calculate_sandwich

\* .filter(|s| s.is_swap()).map(|s| s.clone().force_swap())
SwapsOf(actions) == SelectSeq(actions, is_swap)

Pools(swaps) == {sw.pool : sw \in Range(swaps)}

\* has_pool_overlap without the victims: a pool of the frontruns and the backrun
has_pool_overlap_no_victims(front_run_swaps, back_run_swaps, victim_actions) ==
    \E inner \in Range(back_run_swaps) : inner.pool \in Pools(Flatten(front_run_swaps))

\* has_pool_overlap taken leg by leg: a pool of the backrun, of frontrun g and
\* of a victim of group g
has_pool_overlap_by_leg(front_run_swaps, back_run_swaps, victim_actions) ==
    \E g \in 1..Len(front_run_swaps) :
        /\ g <= Len(victim_actions)
        /\ \E inner \in Range(back_run_swaps) :
               /\ inner.pool \in Pools(front_run_swaps[g])
               /\ inner.pool \in Pools(SwapsOf(Flatten(victim_actions[g])))

\* SandwichInspector::has_pool_overlap
has_pool_overlap(front_run_swaps, back_run_swaps, victim_actions) ==
    LET pools == Pools(Flatten(front_run_swaps))
        has_victim == {sw.pool : sw \in Range(SwapsOf(Flatten(Flatten(victim_actions))))}
                          \cap pools
    IN \E inner \in Range(back_run_swaps) : inner.pool \in pools /\ inner.pool \in has_victim

\* victims.iter().map(|victims| ... flat_map(get_gas_details) ...)
GasOfAll(t, hashes) ==
    SelectSeq([j \in 1..Len(hashes) |-> get_gas_details(t, hashes[j])],
              LAMBDA g : g # None)

\* The arguments of one call of calculate_sandwich
Frame(idx, c, front_run_gas, back_run_gas, searcher_actions, victim_actions, victim_gas) ==
    [idx |-> idx, eoa |-> c.eoa, mev_executor_contract |-> c.mev_executor_contract,
     possible_front_runs |-> c.possible_frontruns,
     possible_back_run |-> c.possible_backrun,
     front_run_gas |-> front_run_gas, back_run_gas |-> back_run_gas,
     searcher_actions |-> searcher_actions, victim_txes |-> c.victims,
     victim_actions |-> victim_actions, victim_gas |-> victim_gas]

\* Inspect without the test of the victims' revert flag and to_address
InspectAnyVictim(t, c) ==
    LET victims == c.victims
        victim_gas == [i \in 1..Len(victims) |-> GasOfAll(t, victims[i])]
        victim_actions == [i \in 1..Len(victims) |->
                              [j \in 1..Len(victims[i]) |-> collect(t, victims[i][j])]]
        searchers == c.possible_frontruns \o <<c.possible_backrun>>
        searcher_actions == SelectSeq([i \in 1..Len(searchers) |-> collect(t, searchers[i])],
                                      LAMBDA f : f # <<>>)
    IN IF \E i \in 1..Len(victim_actions) : \E s \in Range(victim_actions[i]) : s = <<>>
       THEN [kind |-> "none"]
       ELSE [kind |-> "call",
             frame |-> Frame(get_root(t, c.possible_backrun).position, c,
                             GasOfAll(t, c.possible_frontruns),
                             get_gas_details(t, c.possible_backrun),
                             searcher_actions, victim_actions, victim_gas)]

\* Inspect without the test for a victim with no swap and no transfer
InspectEmptyVictims(t, c) ==
    LET victims == c.victims
        victim_gas == [i \in 1..Len(victims) |-> GasOfAll(t, victims[i])]
        victim_actions == [i \in 1..Len(victims) |->
                              [j \in 1..Len(victims[i]) |-> collect(t, victims[i][j])]]
        all_victims == Flatten(victims)
        searchers == c.possible_frontruns \o <<c.possible_backrun>>
        searcher_actions == SelectSeq([i \in 1..Len(searchers) |-> collect(t, searchers[i])],
                                      LAMBDA f : f # <<>>)
    IN IF \E v \in Range(all_victims) : get_root(t, v) = None
       THEN [kind |-> "panic"]
       ELSE IF \E v \in Range(all_victims) :
                  get_root(t, v).revert \/ c.mev_executor_contract = get_root(t, v).to
       THEN [kind |-> "none"]
       ELSE IF get_root(t, c.possible_backrun) = None
       THEN [kind |-> "panic"]
       ELSE [kind |-> "call",
             frame |-> Frame(get_root(t, c.possible_backrun).position, c,
                             GasOfAll(t, c.possible_frontruns),
                             get_gas_details(t, c.possible_backrun),
                             searcher_actions, victim_actions, victim_gas)]

\* The closure of process_tree applied to one candidate, up to its call of
\* calculate_sandwich: "none" (the candidate is skipped), "panic" (an unwrap of
\* a missing root) or "call" with the arguments of the call
Inspect(t, c) ==
    LET victims == c.victims
        victim_gas == [i \in 1..Len(victims) |-> GasOfAll(t, victims[i])]
        victim_actions == [i \in 1..Len(victims) |->
                              [j \in 1..Len(victims[i]) |-> collect(t, victims[i][j])]]
        all_victims == Flatten(victims)
        searchers == c.possible_frontruns \o <<c.possible_backrun>>
        searcher_actions == SelectSeq([i \in 1..Len(searchers) |-> collect(t, searchers[i])],
                                      LAMBDA f : f # <<>>)
    IN IF \E i \in 1..Len(victim_actions) : \E s \in Range(victim_actions[i]) : s = <<>>
       THEN [kind |-> "none"]
       ELSE IF \E v \in Range(all_victims) : get_root(t, v) = None
       THEN [kind |-> "panic"]
       ELSE IF \E v \in Range(all_victims) :
                  get_root(t, v).revert \/ c.mev_executor_contract = get_root(t, v).to
       THEN [kind |-> "none"]
       ELSE IF get_root(t, c.possible_backrun) = None
       THEN [kind |-> "panic"]
       ELSE [kind |-> "call",
             frame |-> Frame(get_root(t, c.possible_backrun).position, c,
                             GasOfAll(t, c.possible_frontruns),
                             get_gas_details(t, c.possible_backrun),
                             searcher_actions, victim_actions, victim_gas)]

\* PeelFrame without victim_txes.pop()
PeelFrameKeepVictims(f, searcher_actions) ==
    [f EXCEPT !.possible_front_runs = Front(@),
              !.possible_back_run = Last(f.possible_front_runs),
              !.front_run_gas = Front(@),
              !.back_run_gas = Last(f.front_run_gas),
              !.searcher_actions = searcher_actions,
              !.victim_actions = Front(@),
              !.victim_gas = Front(@)]

\* PeelFrame that keeps the gas of the discarded backrun
PeelFrameKeepGas(f, searcher_actions) ==
    [f EXCEPT !.possible_front_runs = Front(@),
              !.possible_back_run = Last(f.possible_front_runs),
              !.front_run_gas = Front(@),
              !.searcher_actions = searcher_actions,
              !.victim_txes = Front(@),
              !.victim_actions = Front(@),
              !.victim_gas = Front(@)]

\* PeelFrame that removes the first frontrun and its victims group and keeps
\* the backrun
PeelFrameFromHead(f, searcher_actions) ==
    [f EXCEPT !.possible_front_runs = Tail(@),
              !.front_run_gas = Tail(@),
              !.searcher_actions = searcher_actions,
              !.victim_txes = Tail(@),
              !.victim_actions = Tail(@),
              !.victim_gas = Tail(@)]

\* PeelFrame without possible_front_runs.pop(): the recursive call keeps all
\* the possible frontruns
PeelFrameKeepFrontruns(f, searcher_actions) ==
    [f EXCEPT !.possible_back_run = Last(f.possible_front_runs),
              !.front_run_gas = Front(@),
              !.back_run_gas = Last(f.front_run_gas),
              !.searcher_actions = searcher_actions,
              !.victim_txes = Front(@),
              !.victim_actions = Front(@),
              !.victim_gas = Front(@)]

\* The recursive call of calculate_sandwich: the last frontrun becomes the
\* backrun, the last victims group is dropped
PeelFrame(f, searcher_actions) ==
    [f EXCEPT !.possible_front_runs = Front(@),
              !.possible_back_run = Last(f.possible_front_runs),
              !.front_run_gas = Front(@),
              !.back_run_gas = Last(f.front_run_gas),
              !.searcher_actions = searcher_actions,
              !.victim_txes = Front(@),
              !.victim_actions = Front(@),
              !.victim_gas = Front(@)]

\* front_run_gas.iter().chain(once(&back_run_gas)).map(|g| g.gas_paid())
SearcherGas(f) ==
    [i \in 1..Len(f.front_run_gas) + 1 |->
        gas_paid((f.front_run_gas \o <<f.back_run_gas>>)[i])]

\* BundleHeader and Sandwich built at the end of calculate_sandwich
Bundle(f, metadata, front_run_swaps, back_run_swaps, addr_usd_deltas) ==
    LET victim_swaps == LET txs == Flatten(f.victim_actions)
                        IN [i \in 1..Len(txs) |-> SwapsOf(txs[i])]
        rev_usd == RevenueUsd(addr_usd_deltas)
        gas_used == get_gas_price_usd(metadata, sum_u128(SearcherGas(f)))
    IN [header |->
           [mev_tx_index |-> f.idx, eoa |-> f.eoa,
            mev_profit_collector |-> profit_collectors(addr_usd_deltas),
            tx_hash |-> f.possible_front_runs[1],
            mev_contract |-> f.mev_executor_contract,
            block_number |-> metadata.block_num, mev_type |-> "Sandwich",
            finalized_profit_usd |-> to_float(rev_usd - gas_used),
            finalized_bribe_usd |-> to_float(gas_used)],
        data |->
           [frontrun_tx_hash |-> f.possible_front_runs,
            frontrun_gas_details |-> f.front_run_gas,
            frontrun_swaps |-> front_run_swaps,
            victim_swaps_tx_hashes |-> f.victim_txes,
            victim_swaps |-> victim_swaps,
            victim_swaps_gas_details |-> Flatten(f.victim_gas),
            backrun_tx_hash |-> f.possible_back_run,
            backrun_swaps |-> back_run_swaps,
            backrun_gas_details |-> f.back_run_gas]]

\* A retry only with more than two possible frontruns
CanRetryAboveTwo(f) == Len(f.possible_front_runs) > 2

\* A retry whatever the number of possible frontruns
CanRetryAlways(f) == TRUE

\* if possible_front_runs.len() > 1 : a failed overlap test is retried
CanRetry(f) == Len(f.possible_front_runs) > 1

\* Emit that returns the bundle only when its profit is positive
EmitIfProfitable(f, metadata, front_run_swaps, back_run_swaps, addr_usd_deltas) ==
    LET b == Bundle(f, metadata, front_run_swaps, back_run_swaps, addr_usd_deltas)
    IN IF b.header.finalized_profit_usd > 0 THEN [kind |-> "some", bundle |-> b]
       ELSE [kind |-> "none"]

\* The end of calculate_sandwich: every priced candidate is returned
Emit(f, metadata, front_run_swaps, back_run_swaps, addr_usd_deltas) ==
    [kind |-> "some",
     bundle |-> Bundle(f, metadata, front_run_swaps, back_run_swaps, addr_usd_deltas)]

\* calculate_sandwich that scores an unpriced candidate with no USD delta
calculate_sandwich_unpriced(f, metadata) ==
    IF f.searcher_actions = <<>> THEN [kind |-> "none"]
    ELSE
    LET back_run_swaps == SwapsOf(Last(f.searcher_actions))
        searcher_actions == Front(f.searcher_actions)
        front_run_swaps == [i \in 1..Len(searcher_actions) |-> SwapsOf(searcher_actions[i])]
    IN IF ~has_pool_overlap(front_run_swaps, back_run_swaps, f.victim_actions)
       THEN IF CanRetry(f) /\ f.victim_txes # <<>>
            THEN [kind |-> "recurse", frame |-> PeelFrame(f, searcher_actions)]
            ELSE [kind |-> "none"]
       ELSE LET addr_usd_deltas == usd_delta_by_address(f.idx,
                                       calculate_token_deltas(f.searcher_actions), metadata)
            IN Emit(f, metadata, front_run_swaps, back_run_swaps,
                    IF addr_usd_deltas = Nothing THEN EmptyMap ELSE addr_usd_deltas[1])

\* calculate_sandwich that takes the token deltas over the victims' actions too
calculate_sandwich_victim_flows(f, metadata) ==
    IF f.searcher_actions = <<>> THEN [kind |-> "none"]
    ELSE
    LET all_actions == f.searcher_actions \o Flatten(f.victim_actions)
        back_run_swaps == SwapsOf(Last(f.searcher_actions))
        searcher_actions == Front(f.searcher_actions)
        front_run_swaps == [i \in 1..Len(searcher_actions) |-> SwapsOf(searcher_actions[i])]
    IN IF ~has_pool_overlap(front_run_swaps, back_run_swaps, f.victim_actions)
       THEN IF CanRetry(f)
            THEN IF f.victim_gas = <<>> \/ f.victim_actions = <<>> \/ f.victim_txes = <<>>
                    \/ f.front_run_gas = <<>>
                 THEN [kind |-> "none"]
                 ELSE [kind |-> "recurse", frame |-> PeelFrame(f, searcher_actions)]
            ELSE [kind |-> "none"]
       ELSE LET deltas == calculate_token_deltas(all_actions)
                addr_usd_deltas == usd_delta_by_address(f.idx, deltas, metadata)
            IN IF addr_usd_deltas = Nothing THEN [kind |-> "none"]
               ELSE Emit(f, metadata, front_run_swaps, back_run_swaps, addr_usd_deltas[1])

\* One call of SandwichInspector::calculate_sandwich on the arguments f:
\* "none", "some" with the bundle, or "recurse" with the arguments of the
\* recursive call
calculate_sandwich(f, metadata) ==
    IF f.searcher_actions = <<>> THEN [kind |-> "none"]
    ELSE
    LET all_actions == f.searcher_actions
        back_run_swaps == SwapsOf(Last(f.searcher_actions))
        searcher_actions == Front(f.searcher_actions)
        front_run_swaps == [i \in 1..Len(searcher_actions) |-> SwapsOf(searcher_actions[i])]
    IN IF ~has_pool_overlap(front_run_swaps, back_run_swaps, f.victim_actions)
       THEN IF CanRetry(f)
            THEN IF f.victim_gas = <<>> \/ f.victim_actions = <<>> \/ f.victim_txes = <<>>
                    \/ f.front_run_gas = <<>>
                 THEN [kind |-> "none"]
                 ELSE [kind |-> "recurse", frame |-> PeelFrame(f, searcher_actions)]
            ELSE [kind |-> "none"]
       ELSE LET deltas == calculate_token_deltas(all_actions)
                addr_usd_deltas == usd_delta_by_address(f.idx, deltas, metadata)
            IN IF addr_usd_deltas = Nothing THEN [kind |-> "none"]
               ELSE Emit(f, metadata, front_run_swaps, back_run_swaps, addr_usd_deltas[1])

----------------------------------------------------------------------------
\* The Protocol enum of brontes-pricing and its encodings (protocols/mod.rs)

\* enum Protocol, in the order of its declaration
ProtocolVariants ==
    <<"UniswapV2", "SushiSwapV2", "UniswapV3", "SushiSwapV3", "CurveCryptoSwap",
      "AaveV2", "AaveV3", "UniswapX", "CurveV1BasePool", "CurveV1MetaPool",
      "CurveV2BasePool", "CurveV2MetaPool", "CurveV2PlainPool">>

\* The match of Encodable::encode: the u64 a variant is encoded as
EncodeInt(p) ==
    CASE p = "UniswapV2"        -> 0
      [] p = "SushiSwapV2"      -> 1
      [] p = "UniswapV3"        -> 2
      [] p = "SushiSwapV3"      -> 3
      [] p = "CurveCryptoSwap"  -> 4
      [] p = "AaveV2"           -> 5
      [] p = "AaveV3"           -> 6
      [] p = "UniswapX"         -> 7
      [] p = "CurveV1BasePool"  -> 8
      [] p = "CurveV1MetaPool"  -> 9
      [] p = "CurveV2BasePool"  -> 10
      [] p = "CurveV2MetaPool"  -> 11
      [] p = "CurveV2PlainPool" -> 12

\* DecodeInt with the two Aave variants taken for each other
DecodeIntAaveSwapped(n) ==
    CASE n = 0  -> "UniswapV2"
      [] n = 1  -> "SushiSwapV2"
      [] n = 2  -> "UniswapV3"
      [] n = 3  -> "SushiSwapV3"
      [] n = 4  -> "CurveCryptoSwap"
      [] n = 5  -> "AaveV3"
      [] n = 6  -> "AaveV2"
      [] n = 7  -> "UniswapX"
      [] n = 8  -> "CurveV1BasePool"
      [] n = 9  -> "CurveV1MetaPool"
      [] n = 10 -> "CurveV2BasePool"
      [] n = 11 -> "CurveV2MetaPool"
      [] n = 12 -> "CurveV2PlainPool"
      [] OTHER  -> "unreachable"

\* The match of Decodable::decode: the variant of a u64, or the arm
\* unreachable!("no enum variant")
DecodeInt(n) ==
    CASE n = 0  -> "UniswapV2"
      [] n = 1  -> "SushiSwapV2"
      [] n = 2  -> "UniswapV3"
      [] n = 3  -> "SushiSwapV3"
      [] n = 4  -> "CurveCryptoSwap"
      [] n = 5  -> "AaveV2"
      [] n = 6  -> "AaveV3"
      [] n = 7  -> "UniswapX"
      [] n = 8  -> "CurveV1BasePool"
      [] n = 9  -> "CurveV1MetaPool"
      [] n = 10 -> "CurveV2BasePool"
      [] n = 11 -> "CurveV2MetaPool"
      [] n = 12 -> "CurveV2PlainPool"
      [] OTHER  -> "unreachable"

\* The bytes of a natural number, big-endian, without leading zero bytes
RECURSIVE BytesOf(_)
BytesOf(n) == IF n = 0 THEN <<>> ELSE BytesOf(n \div 256) \o <<n % 256>>

\* The natural number of big-endian bytes
RECURSIVE NatOf(_)
NatOf(bytes) == IF bytes = <<>> THEN 0 ELSE NatOf(Front(bytes)) * 256 + Last(bytes)

\* <u64 as Encodable>::encode (RLP): 0 is the empty string 0x80, a number
\* below 0x80 is its own byte, a larger one a string of its bytes
rlp_encode_u64(n) ==
    IF n = 0 THEN <<128>>
    ELSE IF n < 128 THEN <<n>>
    ELSE <<128 + Len(BytesOf(n))>> \o BytesOf(n)

\* <u64 as Decodable>::decode (RLP) on the front of buf: the number and the
\* bytes left, or an error for a list, a string longer than a u64, a short
\* input, a leading zero byte or a single byte encoded as a string
rlp_decode_u64(buf) ==
    LET err == [ok |-> FALSE, value |-> 0, rest |-> buf]
        len == buf[1] - 128
        payload == SubSeq(buf, 2, 1 + len)
    IN IF buf = <<>> THEN err
       ELSE IF buf[1] < 128
            THEN IF buf[1] = 0 THEN err
                 ELSE [ok |-> TRUE, value |-> buf[1], rest |-> Tail(buf)]
       ELSE IF buf[1] = 128 THEN [ok |-> TRUE, value |-> 0, rest |-> Tail(buf)]
       ELSE IF len > 8 \/ Len(buf) < 1 + len THEN err
       ELSE IF payload[1] = 0 \/ (len = 1 /\ payload[1] < 128) THEN err
       ELSE [ok |-> TRUE, value |-> NatOf(payload),
             rest |-> SubSeq(buf, 2 + len, Len(buf))]

\* No Protocol, and the result of a decoding that was not made
NoProtocol == "none"

NoResult == [kind |-> "none", protocol |-> NoProtocol]

\* impl Encodable for Protocol: encode appends to out
Protocol_encode(p, out) == out \o rlp_encode_u64(EncodeInt(p))

\* impl Decodable for Protocol: Ok(variant), Err of u64::decode, or the panic
\* of unreachable!()
Protocol_decode(buf) ==
    LET r == rlp_decode_u64(buf)
    IN IF ~r.ok THEN [kind |-> "err", protocol |-> NoProtocol]
       ELSE IF DecodeInt(r.value) = "unreachable"
            THEN [kind |-> "panic", protocol |-> NoProtocol]
            ELSE [kind |-> "ok", protocol |-> DecodeInt(r.value)]

\* impl Compress for Protocol: compress_to_buf puts the encoding into buf
compress_to_buf(p, buf) == buf \o Protocol_encode(p, <<>>)

\* impl Decompress for Protocol: decode of a copy of the value, an error
\* becomes DatabaseError::Decode
decompress(value) == Protocol_decode(value)

\* No Protocol is being encoded or decoded
CodecIdle ==
    [stage |-> "idle", via |-> "none", protocol |-> NoProtocol, buf |-> <<>>,
     result |-> NoResult]

----------------------------------------------------------------------------
\* The state machine of process_tree

VARIABLES
    tree,              \* BlockTree::tx_roots, immutable
    meta,              \* MetadataCombined, immutable
    pc,                \* "enumerate", "inspect", "calc", "done" or "panic"
    result_senders,    \* Some(Vec returned by the sender scan), Nothing before it
    result_contracts,  \* Some(Vec returned by the callee scan), Nothing before it
    candidates,        \* Vec returned by get_possible_sandwich
    next,              \* index in candidates of the candidate filter_map is at
    call,              \* arguments of the running calculate_sandwich call, or None
    log,               \* history, per candidate taken: the number of calls of
                       \* calculate_sandwich, the arguments of the last one (or
                       \* None) and the index in results of its bundle (or 0)
    results,           \* the bundles collected so far
    first_run,         \* <<bundles, set of candidates>> of an earlier process_tree
                       \* on the same inputs, Nothing when there was none
    senders_scan,      \* the sender scan, when run root by root: the number of
                       \* roots it is done with and its three maps
    contracts_scan,    \* the same for the callee scan
    codec              \* a Protocol on its way through encode / decode or
                       \* compress / decompress: the stage, the Protocol, the
                       \* bytes and the result of the decoding

vars == <<tree, meta, pc, result_senders, result_contracts, candidates, next, call,
          log, results, first_run, senders_scan, contracts_scan, codec>>

\* A scan before its loop
ScanStart == [pos |-> 0, st |-> ScanInit]

Init ==
    /\ \E n \in 0..MaxTxs : \E ks \in [1..n -> TxKinds] : tree = TreeOf(ks)
    /\ meta = Metadata(Len(tree))
    /\ pc = "enumerate"
    /\ result_senders = Nothing
    /\ result_contracts = Nothing
    /\ candidates = <<>>
    /\ next = 1
    /\ call = None
    /\ log = <<>>
    /\ results = <<>>
    /\ first_run = Nothing
    /\ senders_scan = ScanStart
    /\ contracts_scan = ScanStart
    /\ codec = CodecIdle

\* A test that lets every tree through
TooFewRootsNever(t) == FALSE

\* if tree.tx_roots.len() < 3
TooFewRoots(t) == Len(t) < 3

\* get_possible_sandwich on a tree of fewer than 3 roots: no candidate
EarlyExit ==
    /\ pc = "enumerate"
    /\ TooFewRoots(tree)
    /\ pc' = "done"
    /\ UNCHANGED <<codec, tree, meta, result_senders, result_contracts, candidates, next, call,
                   log, results, first_run,
                   senders_scan, contracts_scan>>

\* The first closure of rayon::join; values() iterates the map in any order
ScanSenders ==
    /\ pc = "enumerate"
    /\ ~TooFewRoots(tree)
    /\ result_senders = Nothing
    /\ \E order \in Orders(Values(SenderScan(tree, Len(tree)).possible_sandwiches)) :
           result_senders' = Some(order)
    /\ UNCHANGED <<codec, tree, meta, pc, result_contracts, candidates, next, call, log,
                   results, first_run,
                   senders_scan, contracts_scan>>

\* The second closure of rayon::join
ScanContracts ==
    /\ pc = "enumerate"
    /\ ~TooFewRoots(tree)
    /\ result_contracts = Nothing
    /\ \E order \in Orders(Values(ContractScan(tree, Len(tree)).possible_sandwiches)) :
           result_contracts' = Some(order)
    /\ UNCHANGED <<codec, tree, meta, pc, result_senders, candidates, next, call, log,
                   results, first_run,
                   senders_scan, contracts_scan>>

\* get_possible_sandwich that returns the result of one of the two scans
either_result(senders, contracts) == {senders, contracts}

\* get_possible_sandwich without the HashSet: the two results are chained
chained_results(senders, contracts) == {senders \o contracts}

\* The Vecs get_possible_sandwich can return: the two results are chained and
\* collected in a HashSet, which is then iterated in any order
unique_results(senders, contracts) == Orders(Range(senders) \cup Range(contracts))

\* The end of get_possible_sandwich, after both closures of rayon::join
Join ==
    /\ pc = "enumerate"
    /\ result_senders # Nothing
    /\ result_contracts # Nothing
    /\ \E order \in unique_results(result_senders[1], result_contracts[1]) :
           /\ candidates' = order
           /\ pc' = IF order = <<>> THEN "done" ELSE "inspect"
    /\ next' = 1
    /\ UNCHANGED <<codec, tree, meta, result_senders, result_contracts, call, log, results,
                   first_run,
                   senders_scan, contracts_scan>>

\* filter_map moves to the next candidate, or collect() ends
Advance ==
    /\ next' = next + 1
    /\ call' = None
    /\ pc' = IF next + 1 > Len(candidates) THEN "done" ELSE "inspect"

\* The closure of process_tree takes the next candidate and skips it
InspectSkip ==
    /\ pc = "inspect"
    /\ Inspect(tree, candidates[next]).kind = "none"
    /\ Advance
    /\ log' = Append(log, [calls |-> 0, frame |-> None, out |-> 0])
    /\ UNCHANGED <<codec, tree, meta, result_senders, result_contracts, candidates, results,
                   first_run,
                   senders_scan, contracts_scan>>

\* The closure of process_tree takes the next candidate and calls
\* calculate_sandwich
InspectCall ==
    /\ pc = "inspect"
    /\ Inspect(tree, candidates[next]).kind = "call"
    /\ call' = Inspect(tree, candidates[next]).frame
    /\ pc' = "calc"
    /\ log' = Append(log, [calls |-> 0, frame |-> Inspect(tree, candidates[next]).frame,
                            out |-> 0])
    /\ UNCHANGED <<codec, tree, meta, result_senders, result_contracts, candidates, next,
                   results, first_run,
                   senders_scan, contracts_scan>>

\* calculate_sandwich returns None
CalcNone ==
    /\ pc = "calc"
    /\ calculate_sandwich(call, meta).kind = "none"
    /\ Advance
    /\ log' = [log EXCEPT ![next].calls = @ + 1]
    /\ UNCHANGED <<codec, tree, meta, result_senders, result_contracts, candidates, results,
                   first_run,
                   senders_scan, contracts_scan>>

\* calculate_sandwich found no pool overlap and calls itself
CalcRecurse ==
    /\ pc = "calc"
    /\ calculate_sandwich(call, meta).kind = "recurse"
    /\ call' = calculate_sandwich(call, meta).frame
    /\ log' = [log EXCEPT ![next].calls = @ + 1,
                          ![next].frame = calculate_sandwich(call, meta).frame]
    /\ UNCHANGED <<codec, tree, meta, pc, result_senders, result_contracts, candidates, next,
                   results, first_run,
                   senders_scan, contracts_scan>>

\* calculate_sandwich returns a bundle
CalcSome ==
    /\ pc = "calc"
    /\ calculate_sandwich(call, meta).kind = "some"
    /\ results' = Append(results, calculate_sandwich(call, meta).bundle)
    /\ Advance
    /\ log' = [log EXCEPT ![next].calls = @ + 1, ![next].out = Len(results) + 1]
    /\ UNCHANGED <<codec, tree, meta, result_senders, result_contracts, candidates, first_run,
                   senders_scan, contracts_scan>>

Next ==
    \/ EarlyExit
    \/ ScanSenders
    \/ ScanContracts
    \/ Join
    \/ InspectSkip
    \/ InspectCall
    \/ CalcNone
    \/ CalcRecurse
    \/ CalcSome

Spec == Init /\ [][Next]_vars

\* Largest number of transaction roots of a block that is inspected twice
MaxTxsTwice == 4

\* process_tree is called again with the same tree and the same metadata
Rerun ==
    /\ pc = "done"
    /\ first_run = Nothing
    /\ first_run' = <<results, Range(candidates)>>
    /\ pc' = "enumerate"
    /\ result_senders' = Nothing
    /\ result_contracts' = Nothing
    /\ candidates' = <<>>
    /\ next' = 1
    /\ call' = None
    /\ log' = <<>>
    /\ results' = <<>>
    /\ UNCHANGED <<codec, tree, meta, senders_scan, contracts_scan>>

InitTwice == Init /\ Len(tree) <= MaxTxsTwice

NextTwice == Next \/ Rerun

\* Two calls of process_tree, one after the other, on every block of at most
\* MaxTxsTwice transactions
SpecTwice == InitTwice /\ [][NextTwice]_vars

\* Largest number of transaction roots of a block scanned root by root
MaxTxsScans == 4

\* A step of the sender scan that leaves its possible_victims to the callee scan
StepSendersShared ==
    /\ pc = "enumerate"
    /\ ~TooFewRoots(tree)
    /\ senders_scan.pos < Len(tree)
    /\ senders_scan' = [pos |-> senders_scan.pos + 1,
                        st |-> SenderStep(senders_scan.st, tree[senders_scan.pos + 1])]
    /\ contracts_scan' = [contracts_scan EXCEPT
                             !.st.possible_victims = senders_scan'.st.possible_victims]
    /\ UNCHANGED <<codec, tree, meta, pc, result_senders, result_contracts, candidates, next,
                   call, log, results, first_run>>

\* One iteration of the loop of the sender scan, in its own thread
StepSenders ==
    /\ pc = "enumerate"
    /\ ~TooFewRoots(tree)
    /\ senders_scan.pos < Len(tree)
    /\ senders_scan' = [pos |-> senders_scan.pos + 1,
                        st |-> SenderStep(senders_scan.st, tree[senders_scan.pos + 1])]
    /\ UNCHANGED <<codec, tree, meta, pc, result_senders, result_contracts, candidates, next,
                   call, log, results, first_run, contracts_scan>>

\* The sender scan returns possible_sandwiches.values(), in any order
FinishSenders ==
    /\ pc = "enumerate"
    /\ ~TooFewRoots(tree)
    /\ senders_scan.pos = Len(tree)
    /\ result_senders = Nothing
    /\ \E order \in Orders(Values(senders_scan.st.possible_sandwiches)) :
           result_senders' = Some(order)
    /\ UNCHANGED <<codec, tree, meta, pc, result_contracts, candidates, next, call, log,
                   results, first_run, senders_scan, contracts_scan>>

\* One iteration of the loop of the callee scan, in its own thread
StepContracts ==
    /\ pc = "enumerate"
    /\ ~TooFewRoots(tree)
    /\ contracts_scan.pos < Len(tree)
    /\ contracts_scan' = [pos |-> contracts_scan.pos + 1,
                          st |-> ContractStep(contracts_scan.st,
                                              tree[contracts_scan.pos + 1])]
    /\ UNCHANGED <<codec, tree, meta, pc, result_senders, result_contracts, candidates, next,
                   call, log, results, first_run, senders_scan>>

\* The callee scan returns possible_sandwiches.values(), in any order
FinishContracts ==
    /\ pc = "enumerate"
    /\ ~TooFewRoots(tree)
    /\ contracts_scan.pos = Len(tree)
    /\ result_contracts = Nothing
    /\ \E order \in Orders(Values(contracts_scan.st.possible_sandwiches)) :
           result_contracts' = Some(order)
    /\ UNCHANGED <<codec, tree, meta, pc, result_senders, candidates, next, call, log,
                   results, first_run, senders_scan, contracts_scan>>

InitScans == Init /\ Len(tree) <= MaxTxsScans

NextScans ==
    \/ EarlyExit
    \/ StepSenders
    \/ FinishSenders
    \/ StepContracts
    \/ FinishContracts
    \/ Join

\* get_possible_sandwich with the two closures of rayon::join run root by
\* root, their steps interleaved in every way, on every block of at most
\* MaxTxsScans transactions
SpecScans == InitScans /\ [][NextScans]_vars

\* Largest number of transaction roots of a block whose tree loses a root
MaxTxsLookup == 4

\* The tree t without its root at index drop
WithoutRoot(t, drop) == [i \in 1..Len(t) - 1 |-> IF i < drop THEN t[i] ELSE t[i + 1]]

\* process_tree after get_possible_sandwich, with a tree that fails the
\* lookups of one transaction of the block the candidates were read from
InitLookup ==
    \E n \in 3..MaxTxsLookup : \E ks \in [1..n -> TxKinds] : \E drop \in 1..n :
        \E order \in unique_results(
                         CHOOSE o \in Orders(Values(SenderScan(TreeOf(ks), n).possible_sandwiches)) : TRUE,
                         CHOOSE o \in Orders(Values(ContractScan(TreeOf(ks), n).possible_sandwiches)) : TRUE) :
            /\ tree = WithoutRoot(TreeOf(ks), drop)
            /\ meta = Metadata(n)
            /\ candidates = order
            /\ pc = IF order = <<>> THEN "done" ELSE "inspect"
            /\ result_senders = Nothing
            /\ result_contracts = Nothing
            /\ next = 1
            /\ call = None
            /\ log = <<>>
            /\ results = <<>>
            /\ first_run = Nothing
            /\ senders_scan = ScanStart
            /\ contracts_scan = ScanStart
            /\ codec = CodecIdle

\* The closure of process_tree unwraps a root the tree does not hold
InspectPanic ==
    /\ pc = "inspect"
    /\ Inspect(tree, candidates[next]).kind = "panic"
    /\ pc' = "panic"
    /\ UNCHANGED <<codec, tree, meta, result_senders, result_contracts, candidates, next, call,
                   log, results, first_run,
                   senders_scan, contracts_scan>>

NextLookup ==
    \/ InspectSkip
    \/ InspectPanic
    \/ InspectCall
    \/ CalcNone
    \/ CalcRecurse
    \/ CalcSome

\* Validation and scoring of the candidates of every block of 3 to
\* MaxTxsLookup transactions against a tree that lacks one of them
SpecLookup == InitLookup /\ [][NextLookup]_vars

\* Largest number of transaction roots of a block with large payments of gas
MaxTxsGas == 4

\* The coinbase transfers of a transaction: a small one, and half the range of
\* a u128
CoinbaseTransfers == {1, U128Units \div 2}

\* tx_roots of the block made of the kinds ks with the coinbase transfers cs
TreeOfGas(ks, cs) ==
    [p \in 1..Len(ks) |->
        [TxRoot(ks[p], p) EXCEPT !.gas_details.coinbase_transfer = cs[p]]]

InitGas ==
    /\ \E n \in 0..MaxTxsGas : \E ks \in [1..n -> TxKinds] :
           \E cs \in [1..n -> CoinbaseTransfers] : tree = TreeOfGas(ks, cs)
    /\ meta = Metadata(Len(tree))
    /\ pc = "enumerate"
    /\ result_senders = Nothing
    /\ result_contracts = Nothing
    /\ candidates = <<>>
    /\ next = 1
    /\ call = None
    /\ log = <<>>
    /\ results = <<>>
    /\ first_run = Nothing
    /\ senders_scan = ScanStart
    /\ contracts_scan = ScanStart
    /\ codec = CodecIdle

\* calculate_sandwich reaches the gas sum and the sum overflows in a build
\* with overflow checks: the addition panics and process_tree unwinds
CalcSumPanic ==
    /\ pc = "calc"
    /\ calculate_sandwich(call, meta).kind = "some"
    /\ sum_u128_overflows(SearcherGas(call))
    /\ pc' = "panic"
    /\ log' = [log EXCEPT ![next].calls = @ + 1]
    /\ UNCHANGED <<codec, tree, meta, result_senders, result_contracts, candidates, next, call,
                   results, first_run,
                   senders_scan, contracts_scan>>

\* In a build without overflow checks the sum wraps and CalcSome returns the
\* bundle; with them CalcSumPanic is the outcome of an overflow
NextGas ==
    \/ Next
    \/ CalcSumPanic

\* process_tree on every block of up to MaxTxsGas transactions with small and
\* large payments of gas
SpecGas == InitGas /\ [][NextGas]_vars

\* Largest number of transaction roots of a block of two searchers
MaxTxsRivals == 5

InitRivals ==
    /\ \E n \in 0..MaxTxsRivals : \E ks \in [1..n -> TxKinds \cup RivalKinds] :
           tree = TreeOf(ks)
    /\ meta = Metadata(Len(tree))
    /\ pc = "enumerate"
    /\ result_senders = Nothing
    /\ result_contracts = Nothing
    /\ candidates = <<>>
    /\ next = 1
    /\ call = None
    /\ log = <<>>
    /\ results = <<>>
    /\ first_run = Nothing
    /\ senders_scan = ScanStart
    /\ contracts_scan = ScanStart
    /\ codec = CodecIdle

\* process_tree on every block of up to MaxTxsRivals transactions in which two
\* searchers can be at work, each with its EOA and its contract
SpecRivals == InitRivals /\ [][Next]_vars

\* Largest number of bytes of a value that is decoded without having been
\* encoded here
MaxWireLen == 2

\* The bytes such a value is made of
WireBytes == {0, 1, 12, 13, 127, 128, 129, 200}

\* A Protocol to encode or to compress, or bytes to decode or to decompress
CodecInputs ==
    {[stage |-> "start", via |-> v, protocol |-> ProtocolVariants[i], buf |-> <<>>,
      result |-> NoResult] : v \in {"rlp", "db"}, i \in 1..Len(ProtocolVariants)}
    \cup
    {[stage |-> "encoded", via |-> v, protocol |-> NoProtocol, buf |-> b,
      result |-> NoResult] :
         v \in {"rlp", "db"}, b \in UNION {[1..n -> WireBytes] : n \in 0..MaxWireLen}}

InitCodec ==
    /\ tree = <<>>
    /\ meta = Metadata(0)
    /\ pc = "done"
    /\ result_senders = Nothing
    /\ result_contracts = Nothing
    /\ candidates = <<>>
    /\ next = 1
    /\ call = None
    /\ log = <<>>
    /\ results = <<>>
    /\ first_run = Nothing
    /\ senders_scan = ScanStart
    /\ contracts_scan = ScanStart
    /\ codec \in CodecInputs

\* The variables of the inspector, which the encodings leave alone
inspector_vars ==
    <<tree, meta, pc, result_senders, result_contracts, candidates, next, call,
      log, results, first_run, senders_scan, contracts_scan>>

\* Protocol::encode into an empty buffer
Encode ==
    /\ codec.stage = "start" /\ codec.via = "rlp"
    /\ codec' = [codec EXCEPT !.stage = "encoded",
                              !.buf = Protocol_encode(codec.protocol, codec.buf)]
    /\ UNCHANGED inspector_vars

\* Protocol::decode; the buffer is advanced past the bytes that were read
Decode ==
    /\ codec.stage = "encoded" /\ codec.via = "rlp"
    /\ codec' = [codec EXCEPT !.stage = "decoded",
                              !.result = Protocol_decode(codec.buf),
                              !.buf = rlp_decode_u64(codec.buf).rest]
    /\ UNCHANGED inspector_vars

\* Protocol::compress_to_buf into an empty buffer
Compress ==
    /\ codec.stage = "start" /\ codec.via = "db"
    /\ codec' = [codec EXCEPT !.stage = "encoded",
                              !.buf = compress_to_buf(codec.protocol, codec.buf)]
    /\ UNCHANGED inspector_vars

\* Protocol::decompress; the value is left as it was
Decompress ==
    /\ codec.stage = "encoded" /\ codec.via = "db"
    /\ codec' = [codec EXCEPT !.stage = "decoded", !.result = decompress(codec.buf)]
    /\ UNCHANGED inspector_vars

NextCodec ==
    \/ Encode
    \/ Decode
    \/ Compress
    \/ Decompress

\* Every Protocol encoded and decoded, compressed and decompressed, and every
\* value of up to MaxWireLen bytes decoded and decompressed
SpecCodec == InitCodec /\ [][NextCodec]_vars

----------------------------------------------------------------------------
\* Properties

\* The block position of the transaction with hash h
Pos(h) == get_root(tree, h).position

\* The candidates that filter_map is done with
Taken == {k \in 1..Len(log) : k < next}

\* The candidates for which a bundle was returned, and the bundle
Emitted == {k \in 1..Len(log) : log[k].out > 0}

BundleOf(k) == results[log[k].out]

\* The hashes of all the victims of a bundle
VictimsOf(d) == Range(Flatten(d.victim_swaps_tx_hashes))

\* C1 as stated: in every emitted bundle frontrun_tx_hash is non-empty, every
\* frontrun precedes every victim and every victim precedes the backrun.
C1_EveryFrontrunBeforeEveryVictim ==
    \A i \in 1..Len(results) :
        LET d == results[i].data
        IN /\ d.frontrun_tx_hash # <<>>
           /\ \A f \in Range(d.frontrun_tx_hash) : \A v \in VictimsOf(d) :
                  Pos(f) < Pos(v) /\ Pos(v) < Pos(d.backrun_tx_hash)

\* C1 amended: in every emitted bundle frontrun_tx_hash is non-empty, every
\* frontrun precedes the backrun, and every victim of group g lies after
\* frontrun g (hence after the first frontrun) and before the backrun; with a
\* single frontrun every frontrun precedes every victim.
C1_VictimsAfterTheirFrontrun ==
    \A i \in 1..Len(results) :
        LET d == results[i].data
        IN /\ d.frontrun_tx_hash # <<>>
           /\ Len(d.victim_swaps_tx_hashes) = Len(d.frontrun_tx_hash)
           /\ \A f \in Range(d.frontrun_tx_hash) : Pos(f) < Pos(d.backrun_tx_hash)
           /\ \A g \in 1..Len(d.victim_swaps_tx_hashes) :
                  \A v \in Range(d.victim_swaps_tx_hashes[g]) :
                     /\ Pos(d.frontrun_tx_hash[g]) < Pos(v)
                     /\ Pos(d.frontrun_tx_hash[1]) < Pos(v)
                     /\ Pos(v) < Pos(d.backrun_tx_hash)
           /\ Len(d.frontrun_tx_hash) = 1 =>
                  \A v \in VictimsOf(d) : Pos(d.frontrun_tx_hash[1]) < Pos(v)

\* A bundle of two frontruns, each followed by a victim, has been emitted
C1_Witness ==
    \E i \in 1..Len(results) :
        LET d == results[i].data
        IN /\ Len(d.frontrun_tx_hash) = 2
           /\ \A g \in 1..2 : d.victim_swaps_tx_hashes[g] # <<>>

\* C2: every emitted bundle has a pool that is the pool of a swap of
\* frontrun_swaps, of a swap of victim_swaps and of a swap of backrun_swaps.
C2_PoolOverlap ==
    \A i \in 1..Len(results) :
        LET d == results[i].data
        IN \E P \in Pools(d.backrun_swaps) :
              P \in Pools(Flatten(d.frontrun_swaps)) /\ P \in Pools(Flatten(d.victim_swaps))

\* An emitted bundle whose victims swap on two pools, one of them not a pool of
\* the backrun
C2_Witness ==
    \E i \in 1..Len(results) :
        LET d == results[i].data
        IN \E P \in Pools(Flatten(d.victim_swaps)) : P \notin Pools(d.backrun_swaps)

\* C3 as stated: a second call of process_tree on the same tree and metadata
\* returns the same bundles in the same order as the first.
C3_SameBundlesSameOrder ==
    (pc = "done" /\ first_run # Nothing) => results = first_run[1]

\* The roots (indexes in tx_roots) that share the sender, or the callee, of the
\* first root of the block
SameSender == {i \in 1..Len(tree) : tree[i].address = tree[1].address}

SameCallee == {i \in 1..Len(tree) : tree[i].to = tree[1].to}

\* No two roots of the set I share the sender / the callee
DistinctSenders(I) == \A i, j \in I : i # j => tree[i].address # tree[j].address

DistinctCallees(I) == \A i, j \in I : i # j => tree[i].to # tree[j].to

\* Every token of the swaps and transfers of the roots I has a price at idx
AllPriced(I, idx) ==
    \A i \in I : \A a \in Range(tree[i].actions) :
        /\ is_swap(a) => \A t \in {a.token_in, a.token_out} :
                             price_at_or_before(meta.dex_quotes, t, idx) # Nothing
        /\ is_transfer(a) => price_at_or_before(meta.dex_quotes, a.token, idx) # Nothing

\* The block holds the transactions of exactly one sandwich, whose attacker
\* transactions are the roots atk: the first and the last root are the first
\* frontrun and the backrun, nothing reverted, the other roots are victims with
\* a swap or a transfer each, with senders and callees of their own, and a pool
\* is swapped on by a frontrun, by a victim and by the backrun, all priced.
OneSandwich(atk) ==
    LET n == Len(tree)
        vic == (1..n) \ atk
        swapPools(i) == Pools(SwapsOf(tree[i].actions))
    IN /\ n >= 3
       /\ {1, n} \subseteq atk
       /\ vic # {}
       /\ \A i \in 1..n : ~tree[i].revert
       /\ \A v \in vic : collect(tree, tree[v].tx_hash) # <<>>
       /\ \A v \in vic : \A a \in atk :
              tree[v].to # tree[a].to /\ tree[v].address # tree[a].address
       /\ DistinctSenders(vic)
       /\ DistinctCallees(vic)
       /\ \E P \in swapPools(n) :
              (\E a \in atk \ {n} : P \in swapPools(a)) /\ (\E v \in vic : P \in swapPools(v))
       /\ AllPriced(atk, n - 1)

\* The attacker transactions share the sender only, the callee only, or both
SharedSenderOnly == OneSandwich(SameSender) /\ DistinctCallees(SameSender)

SharedCalleeOnly == OneSandwich(SameCallee) /\ DistinctSenders(SameCallee)

SharedBoth == OneSandwich(SameSender) /\ SameSender = SameCallee

\* The hashes of the roots I, in block order
RECURSIVE HashesOf(_, _)
HashesOf(I, from) ==
    IF from > Len(tree) THEN <<>>
    ELSE (IF from \in I THEN <<tree[from].tx_hash>> ELSE <<>>) \o HashesOf(I, from + 1)

\* The one bundle of the sandwich of the attacker transactions atk
IsTheBundleOf(atk) ==
    /\ Len(results) = 1
    /\ results[1].data.frontrun_tx_hash = HashesOf(atk \ {Len(tree)}, 1)
    /\ results[1].data.backrun_tx_hash = tree[Len(tree)].tx_hash

C4_WitnessSender ==
    pc = "done" /\ SharedSenderOnly /\ result_contracts[1] = <<>> /\ Len(results) = 1

C4_WitnessCallee ==
    pc = "done" /\ SharedCalleeOnly /\ result_senders[1] = <<>> /\ Len(results) = 1

\* The arguments of the first call of calculate_sandwich for the candidate c
FirstFrame(c) == Inspect(tree, c).frame

\* The arguments f reach the overlap test of calculate_sandwich and pass it
OverlapOf(f) ==
    /\ f.searcher_actions # <<>>
    /\ has_pool_overlap([i \in 1..Len(f.searcher_actions) - 1 |->
                            SwapsOf(f.searcher_actions[i])],
                        SwapsOf(Last(f.searcher_actions)), f.victim_actions)

\* The deltas of the arguments f have a price for every token
PricedOf(f) ==
    usd_delta_by_address(f.idx, calculate_token_deltas(f.searcher_actions), meta) # Nothing

\* The candidate c reduced by one peel-off, read from the tree: the last
\* frontrun is the backrun, with its gas, and the last victims group, its gas
\* and its actions are gone
Reduced(c) ==
    LET m == Len(c.possible_frontruns) - 1
    IN [idx |-> Pos(c.possible_backrun), eoa |-> c.eoa,
        mev_executor_contract |-> c.mev_executor_contract,
        possible_front_runs |-> SubSeq(c.possible_frontruns, 1, m),
        possible_back_run |-> c.possible_frontruns[m + 1],
        front_run_gas |-> [i \in 1..m |-> get_root(tree, c.possible_frontruns[i]).gas_details],
        back_run_gas |-> get_root(tree, c.possible_frontruns[m + 1]).gas_details,
        searcher_actions |-> Front(FirstFrame(c).searcher_actions),
        victim_txes |-> SubSeq(c.victims, 1, m),
        victim_actions |-> [i \in 1..m |-> [j \in 1..Len(c.victims[i]) |->
                                                collect(tree, c.victims[i][j])]],
        victim_gas |-> [i \in 1..m |-> [j \in 1..Len(c.victims[i]) |->
                                            get_root(tree, c.victims[i][j]).gas_details]]]

\* The overlap test of the first call fails for the candidate c, which has more
\* than one possible frontrun
FirstOverlapFails(c) ==
    /\ Inspect(tree, c).kind = "call"
    /\ FirstFrame(c).searcher_actions # <<>>
    /\ ~OverlapOf(FirstFrame(c))
    /\ Len(c.possible_frontruns) > 1

\* C5: when the overlap test fails for a candidate with n > 1 possible
\* frontruns, calculate_sandwich is called again with the last frontrun as the
\* backrun, with its gas, and without the last victims group, its gas and its
\* actions; when the overlap test passes on these arguments and they are
\* priced, the bundle emitted has the first n-1 frontruns and the former last
\* frontrun as backrun_tx_hash.
C5_PeelOffRetry ==
    \A k \in 1..Len(log) :
        LET c == candidates[k]
        IN FirstOverlapFails(c) =>
              /\ (pc = "calc" /\ k = next /\ log[k].calls = 1) => call = Reduced(c)
              /\ k \in Taken =>
                    /\ log[k].calls >= 2
                    /\ (OverlapOf(Reduced(c)) /\ PricedOf(Reduced(c))) =>
                          /\ log[k].calls = 2
                          /\ k \in Emitted
                          /\ BundleOf(k).data.frontrun_tx_hash = Front(c.possible_frontruns)
                          /\ BundleOf(k).data.backrun_tx_hash = Last(c.possible_frontruns)
                          /\ BundleOf(k).data.backrun_gas_details =
                                 get_root(tree, Last(c.possible_frontruns)).gas_details
                          /\ BundleOf(k).data.victim_swaps_tx_hashes = Front(c.victims)

\* A candidate of three frontruns failed the overlap test, its last victims
\* group was discarded and the bundle of its first two frontruns was emitted
C5_Witness ==
    \E k \in Emitted :
        /\ FirstOverlapFails(candidates[k])
        /\ Len(candidates[k].possible_frontruns) = 3
        /\ log[k].calls = 2
        /\ Len(BundleOf(k).data.frontrun_tx_hash) = 2
        /\ BundleOf(k).data.backrun_tx_hash = candidates[k].possible_frontruns[3]

\* The same with a last victims group that is discarded with its victims
C5_WitnessDiscardedVictims ==
    \E k \in Emitted :
        /\ FirstOverlapFails(candidates[k])
        /\ Last(candidates[k].victims) # <<>>
        /\ log[k].calls = 2

\* The roots (indexes in tx_roots) of the key of the candidate c that did not
\* revert: the sender for a candidate of the sender scan, the callee for one
\* of the callee scan
KeyRoots(c, by_sender) ==
    {i \in 1..Len(tree) :
        /\ ~tree[i].revert
        /\ IF by_sender THEN tree[i].address = c.eoa
           ELSE tree[i].to = c.mev_executor_contract}

\* The i-th smallest element of a set of numbers
RECURSIVE Nth(_, _)
Nth(I, i) ==
    LET least == CHOOSE x \in I : \A y \in I : x <= y
    IN IF i = 1 THEN least ELSE Nth(I \ {least}, i - 1)

\* The hashes of the non-reverted roots strictly between the roots i and j
VictimsBetween(i, j) == HashesOf({x \in 1..Len(tree) : i < x /\ x < j /\ ~tree[x].revert}, 1)

\* The bundle b lists the roots atk: all but the last as frontruns, in position
\* order, the last as backrun, and victims group i holds the victims after
\* frontrun i
ListsAll(b, atk) ==
    /\ b.data.frontrun_tx_hash \o <<b.data.backrun_tx_hash>> = HashesOf(atk, 1)
    /\ Len(b.data.victim_swaps_tx_hashes) = Cardinality(atk) - 1
    /\ \A i \in 1..Cardinality(atk) - 1 :
           b.data.victim_swaps_tx_hashes[i] = VictimsBetween(Nth(atk, i), Nth(atk, i + 1))

\* The candidates of the two scans, once they are done
OfSenderScan == IF result_senders = Nothing THEN {} ELSE Range(result_senders[1])

OfCalleeScan == IF result_contracts = Nothing THEN {} ELSE Range(result_contracts[1])

\* C6: for a sender or a callee with k+1 >= 3 non-reverted transactions, the
\* candidate lists them all, and when the overlap test passes with the last of
\* them as backrun the emitted bundle has the k earlier ones in
\* frontrun_tx_hash, in position order, and k victims groups, group i holding
\* the victims that follow frontrun i.
C6_BigMacListsAllFrontruns ==
    /\ \A c \in OfSenderScan : Len(c.possible_frontruns) + 1 = Cardinality(KeyRoots(c, TRUE))
    /\ \A c \in OfCalleeScan : Len(c.possible_frontruns) + 1 = Cardinality(KeyRoots(c, FALSE))
    /\ \A k \in Emitted :
          LET c == candidates[k]
          IN (log[k].calls = 1 /\ Len(c.possible_frontruns) >= 2) =>
                /\ Len(BundleOf(k).data.frontrun_tx_hash) = Len(c.possible_frontruns)
                /\ c \in OfSenderScan => ListsAll(BundleOf(k), KeyRoots(c, TRUE))
                /\ c \in OfCalleeScan => ListsAll(BundleOf(k), KeyRoots(c, FALSE))

\* The two-leg Big Mac: a bundle of two frontruns, each followed by a victim,
\* was emitted at the first overlap test
C6_Witness ==
    \E k \in Emitted :
        /\ log[k].calls = 1
        /\ Len(BundleOf(k).data.frontrun_tx_hash) = 2
        /\ \A g \in 1..2 : BundleOf(k).data.victim_swaps_tx_hashes[g] # <<>>

\* A bundle of three frontruns was emitted at the first overlap test
C6_WitnessThreeFrontruns ==
    \E k \in Emitted : log[k].calls = 1 /\ Len(BundleOf(k).data.frontrun_tx_hash) = 3

\* Every candidate a scan or get_possible_sandwich has returned so far
AllCandidates == OfSenderScan \cup OfCalleeScan \cup Range(candidates)

\* The hash that closes victims group i of the candidate c
GroupEnd(c, i) ==
    IF i < Len(c.possible_frontruns) THEN c.possible_frontruns[i + 1] ELSE c.possible_backrun

\* The hashes of all the roots, reverted or not, strictly between i and j
AllBetween(i, j) == HashesOf({x \in 1..Len(tree) : i < x /\ x < j}, 1)

\* The lists of the arguments of a call of calculate_sandwich have one entry
\* per possible frontrun
FrameLengths(f) ==
    /\ Len(f.victim_txes) = Len(f.possible_front_runs)
    /\ Len(f.victim_actions) = Len(f.possible_front_runs)
    /\ Len(f.victim_gas) = Len(f.possible_front_runs)
    /\ Len(f.front_run_gas) = Len(f.possible_front_runs)

\* C7 as stated: every candidate has as many victims groups as possible
\* frontruns, group i is exactly the list of the transactions positioned
\* strictly between frontrun i and frontrun i+1 (the backrun for the last i),
\* and the lengths agree in the arguments of every call of calculate_sandwich.
C7_VictimsAreAllBetween ==
    /\ \A c \in AllCandidates :
          /\ Len(c.victims) = Len(c.possible_frontruns)
          /\ \A i \in 1..Len(c.victims) :
                 c.victims[i] = AllBetween(Pos(c.possible_frontruns[i]) + 1,
                                           Pos(GroupEnd(c, i)) + 1)
    /\ call # None => FrameLengths(call)

\* C7 amended: every candidate has as many victims groups as possible
\* frontruns, group i is exactly the list of the transactions that did not
\* revert and are positioned strictly between frontrun i and frontrun i+1 (the
\* backrun for the last i), and the lengths agree in the arguments of every
\* call of calculate_sandwich, the recursive ones included.
C7_VictimsAreNonRevertedBetween ==
    /\ \A c \in AllCandidates :
          /\ Len(c.victims) = Len(c.possible_frontruns)
          /\ \A i \in 1..Len(c.victims) :
                 c.victims[i] = VictimsBetween(Pos(c.possible_frontruns[i]) + 1,
                                               Pos(GroupEnd(c, i)) + 1)
    /\ call # None => FrameLengths(call)

\* A recursive call of calculate_sandwich is running for a candidate that has
\* a reverted transaction between its first frontrun and its backrun
C7_Witness ==
    /\ pc = "calc"
    /\ log[next].calls >= 1
    /\ \E x \in 1..Len(tree) :
           /\ tree[x].revert
           /\ Pos(candidates[next].possible_frontruns[1]) < x - 1
           /\ x - 1 < Pos(candidates[next].possible_backrun)

\* The sum of gas_paid() over the transactions hs, read from the tree
RECURSIVE GasPaidBy(_)
GasPaidBy(hs) ==
    IF hs = <<>> THEN 0
    ELSE gas_paid(get_root(tree, hs[1]).gas_details) + GasPaidBy(Tail(hs))

\* The transactions of the searcher in the bundle b
SearcherTxs(b) == b.data.frontrun_tx_hash \o <<b.data.backrun_tx_hash>>

\* C8: the bribe of every emitted bundle is get_gas_price_usd of the sum of
\* gas_paid() over the transactions of its frontrun_tx_hash and its
\* backrun_tx_hash, and over no other transaction.
C8_BribeIsSearcherGas ==
    \A i \in 1..Len(results) :
        results[i].header.finalized_bribe_usd =
            to_float(get_gas_price_usd(meta, GasPaidBy(SearcherTxs(results[i]))))

\* A bundle with victims was emitted after a peel-off, which discarded a
\* backrun and a victims group
C8_Witness ==
    \E k \in Emitted :
        /\ log[k].calls >= 2
        /\ VictimsOf(BundleOf(k).data) # {}
        /\ Last(candidates[k].victims) # <<>>

\* The sum of the values of a map
RECURSIVE SumValues(_)
SumValues(m) ==
    IF DOMAIN m = {} THEN 0
    ELSE LET a == CHOOSE x \in DOMAIN m : TRUE
         IN m[a] + SumValues([x \in DOMAIN m \ {a} |-> m[x]])

\* The USD deltas by address of the searcher actions of the call that emitted
\* the bundle of candidate k
UsdDeltasOf(k) ==
    usd_delta_by_address(log[k].frame.idx,
                         calculate_token_deltas(log[k].frame.searcher_actions), meta)[1]

\* C9: the profit of every emitted bundle is the revenue minus the bribe, the
\* revenue being the sum of the USD deltas of all the addresses of
\* usd_delta_by_address, the negative ones included: profit + bribe = revenue.
C9_ProfitIsRevenueMinusBribe ==
    \A k \in Emitted :
        LET h == BundleOf(k).header
            revenue == SumValues(UsdDeltasOf(k))
        IN /\ h.finalized_profit_usd =
                  to_float(revenue - get_gas_price_usd(meta, GasPaidBy(SearcherTxs(BundleOf(k)))))
           /\ h.finalized_profit_usd + h.finalized_bribe_usd = revenue

\* A bundle was emitted whose USD deltas have a gain and a loss
C9_Witness ==
    \E k \in Emitted :
        /\ \E a \in DOMAIN UsdDeltasOf(k) : UsdDeltasOf(k)[a] < 0
        /\ \E a \in DOMAIN UsdDeltasOf(k) : UsdDeltasOf(k)[a] > 0

\* C10: a candidate whose last call of calculate_sandwich passes the overlap
\* test and is priced is emitted whatever its profit; with a revenue below the
\* gas cost the bundle is emitted with a negative profit.
C10_LosingBundleIsEmitted ==
    \A k \in Taken :
        (log[k].calls >= 1 /\ OverlapOf(log[k].frame) /\ PricedOf(log[k].frame)) =>
            /\ k \in Emitted
            /\ SumValues(UsdDeltasOf(k)) <
                   get_gas_price_usd(meta, GasPaidBy(SearcherTxs(BundleOf(k))))
               => BundleOf(k).header.finalized_profit_usd < 0

\* A bundle with a negative profit was emitted
C10_Witness ==
    \E k \in Emitted : BundleOf(k).header.finalized_profit_usd < 0

\* A victim of the candidate c is reverted or calls the contract of c
HasOwnProbe(c) ==
    \E v \in Range(Flatten(c.victims)) :
        get_root(tree, v).revert \/ get_root(tree, v).to = c.mev_executor_contract

\* C11: a candidate with a victim, in any victims group, that is reverted or
\* whose to_address is the candidate's mev_executor_contract yields no bundle
\* and calculate_sandwich is never called for it: no overlap test, no peel-off.
C11_OwnProbeRejectsCandidate ==
    /\ \A k \in Taken : HasOwnProbe(candidates[k]) => log[k].calls = 0 /\ log[k].out = 0
    /\ (pc = "calc" /\ next <= Len(candidates)) => ~HasOwnProbe(candidates[next])

\* A candidate of two frontruns was rejected without a call for a victim of
\* its first group that calls its contract, while all its victims have a swap
\* or a transfer
C11_Witness ==
    \E k \in Taken :
        LET c == candidates[k]
        IN /\ Len(c.possible_frontruns) >= 2
           /\ \E v \in Range(c.victims[1]) : get_root(tree, v).to = c.mev_executor_contract
           /\ \A v \in Range(Flatten(c.victims)) : collect(tree, v) # <<>>
           /\ log[k].calls = 0

\* C12: when the overlap test fails in a call of calculate_sandwich with
\* exactly one possible frontrun, the call returns None: no further call and
\* no bundle for the candidate.
C12_SingleFrontrunNoRetry ==
    \A k \in Taken :
        LET c == candidates[k]
        IN /\ (Inspect(tree, c).kind = "call" /\ Len(c.possible_frontruns) = 1
               /\ ~OverlapOf(FirstFrame(c))) => (log[k].calls = 1 /\ log[k].out = 0)
           /\ (log[k].frame # None /\ Len(log[k].frame.possible_front_runs) = 1
               /\ ~OverlapOf(log[k].frame)) => log[k].out = 0

\* A candidate with one frontrun, with victims that swap, failed the overlap
\* test in its only call
C12_Witness ==
    \E k \in Taken :
        LET c == candidates[k]
        IN /\ Inspect(tree, c).kind = "call"
           /\ Len(c.possible_frontruns) = 1
           /\ FirstFrame(c).searcher_actions # <<>>
           /\ Pools(SwapsOf(Flatten(Flatten(FirstFrame(c).victim_actions)))) # {}
           /\ ~OverlapOf(FirstFrame(c))
           /\ log[k].calls = 1

\* A candidate peeled down to one frontrun failed the overlap test again
C12_WitnessAfterPeel ==
    \E k \in Taken :
        /\ log[k].calls = 2
        /\ Len(log[k].frame.possible_front_runs) = 1
        /\ log[k].frame.searcher_actions # <<>>
        /\ ~OverlapOf(log[k].frame)

\* The last call of calculate_sandwich for candidate k passed the overlap test
PassedOverlap(k) == log[k].calls >= 1 /\ OverlapOf(log[k].frame)

\* C13: a candidate that passes the overlap test and for which
\* usd_delta_by_address returns None yields no bundle; the call returns None,
\* filter_map goes on to the next candidate, and at the end every candidate
\* has been taken and every priced one that passed the test has its bundle.
C13_UnpricedCandidateIsSkipped ==
    /\ \A k \in Taken : (PassedOverlap(k) /\ ~PricedOf(log[k].frame)) => log[k].out = 0
    /\ (pc = "calc" /\ OverlapOf(call) /\ ~PricedOf(call)) =>
           calculate_sandwich(call, meta).kind = "none"
    /\ pc = "done" =>
           /\ Len(log) = Len(candidates)
           /\ Len(results) =
                  Cardinality({k \in 1..Len(log) : PassedOverlap(k) /\ PricedOf(log[k].frame)})

\* process_tree has returned the bundle of one candidate, taken after a
\* candidate that passed the overlap test and could not be priced
C13_Witness ==
    /\ pc = "done"
    /\ \E k \in Taken : \E j \in Emitted :
           k < j /\ PassedOverlap(k) /\ ~PricedOf(log[k].frame)

\* The same with the unpriced candidate taken after the emitted one
C13_WitnessUnpricedLast ==
    /\ pc = "done"
    /\ \E k \in Taken : \E j \in Emitted :
           j < k /\ PassedOverlap(k) /\ ~PricedOf(log[k].frame)

\* The hashes the candidate c names
HashesIn(c) ==
    Range(c.possible_frontruns) \cup {c.possible_backrun} \cup Range(Flatten(c.victims))

\* A lookup of a hash of the candidate c fails in the tree
LookupFails(c) == \E h \in HashesIn(c) : get_root(tree, h) = None

C15_FewerThanThreeRoots ==
    Len(tree) < 3 =>
        /\ pc \in {"enumerate", "done"}
        /\ result_senders = Nothing /\ result_contracts = Nothing
        /\ candidates = <<>>
        /\ results = <<>>

\* process_tree has returned for a block of two transactions of one sender,
\* for which the sender scan has a candidate
C15_Witness ==
    /\ pc = "done"
    /\ Len(tree) = 2
    /\ SenderScan(tree, 2).possible_sandwiches # EmptyMap

\* The scans have run on a block of three roots of which one is reverted
C15_WitnessRevertedCounted ==
    /\ Len(tree) = 3
    /\ \E i \in 1..3 : tree[i].revert
    /\ result_senders # Nothing /\ result_senders[1] # <<>>

\* Every root of the block is reverted
AllReverted == \A i \in 1..Len(tree) : tree[i].revert

\* C16: when every transaction root of the block is reverted, neither scan
\* returns a candidate and process_tree returns no bundle, whatever the number
\* of transactions.
C16_AllRevertedNoBundle ==
    AllReverted =>
        /\ OfSenderScan = {} /\ OfCalleeScan = {}
        /\ candidates = <<>>
        /\ results = <<>>

\* process_tree has returned for a block of MaxTxs reverted transactions, on
\* which both scans have run
C16_Witness ==
    /\ pc = "done"
    /\ Len(tree) = MaxTxs
    /\ AllReverted
    /\ result_senders # Nothing /\ result_contracts # Nothing

\* The fields of a PossibleSandwich, which derive(PartialEq, Eq, Hash) compares
FieldsOf(c) ==
    <<c.eoa, c.possible_frontruns, c.possible_backrun, c.mev_executor_contract, c.victims>>

\* get_possible_sandwich has returned after running the scans
Joined == pc \in {"inspect", "calc", "done"} /\ result_senders # Nothing

\* C17: get_possible_sandwich returns exactly the union of the candidates of
\* the sender scan and of the callee scan: each of them is returned, nothing
\* else is, and no two returned candidates are equal field by field.
C17_UnionWithoutDuplicates ==
    Joined =>
        /\ \A c \in OfSenderScan \cup OfCalleeScan :
               \E i \in 1..Len(candidates) : FieldsOf(candidates[i]) = FieldsOf(c)
        /\ \A i \in 1..Len(candidates) :
               \E c \in OfSenderScan \cup OfCalleeScan : FieldsOf(candidates[i]) = FieldsOf(c)
        /\ \A i, j \in 1..Len(candidates) :
               i # j => FieldsOf(candidates[i]) # FieldsOf(candidates[j])

\* Both scans returned the same candidate, and it is returned once
C17_Witness ==
    /\ Joined
    /\ OfSenderScan \cap OfCalleeScan # {}
    /\ Len(candidates) = 1

\* Each scan returned one candidate, the two differ and both are returned
C17_WitnessTwoCandidates ==
    /\ Joined
    /\ Cardinality(OfSenderScan) = 1 /\ Cardinality(OfCalleeScan) = 1
    /\ Len(candidates) = 2

RootsOfSender(a) == {i \in 1..Len(tree) : ~tree[i].revert /\ tree[i].address = a}

RootsOfCallee(a) == {i \in 1..Len(tree) : ~tree[i].revert /\ tree[i].to = a}

\* The candidate of the transactions R of one key, read from the tree: all
\* but the last are frontruns, the last is the backrun, the contract is the
\* callee of the second, the victims are the transactions in between
CandidateOf(R, eoa) ==
    PossibleSandwich(eoa,
                     HashesOf(R \ {Nth(R, Cardinality(R))}, 1),
                     tree[Nth(R, Cardinality(R))].tx_hash,
                     tree[Nth(R, 2)].to,
                     [i \in 1..Cardinality(R) - 1 |-> VictimsBetween(Nth(R, i), Nth(R, i + 1))])

\* The candidates of the tree: one per sender and one per callee with two or
\* more transactions that did not revert
CandidatesOfTree ==
    {CandidateOf(RootsOfSender(a), a) :
        a \in {tree[i].address : i \in {j \in 1..Len(tree) :
                  Cardinality(RootsOfSender(tree[j].address)) >= 2 /\ ~tree[j].revert}}}
    \cup
    {CandidateOf(RootsOfCallee(a), tree[Nth(RootsOfCallee(a), 1)].address) :
        a \in {tree[i].to : i \in {j \in 1..Len(tree) :
                  Cardinality(RootsOfCallee(tree[j].to)) >= 2 /\ ~tree[j].revert}}}

\* The maps of a scan hold only what its own iterations put there
OwnMaps ==
    /\ senders_scan.st = SenderScan(tree, senders_scan.pos)
    /\ contracts_scan.st = ContractScan(tree, contracts_scan.pos)

\* C19: the two scans share no mutable state and only read the tree: the maps
\* of each scan are those of its own iterations wherever the other scan is,
\* the tree is never written, and under every interleaving of their steps
\* get_possible_sandwich returns the same set of candidates, that of the tree.
C19_ScansAreIndependent ==
    /\ [](OwnMaps /\ (pc \in {"inspect", "done"} /\ result_senders # Nothing
                        => Range(candidates) = CandidatesOfTree))
    /\ [][tree' = tree]_vars

\* The scans have joined with two candidates
C19_WitnessJoined ==
    /\ pc = "inspect"
    /\ Len(candidates) = 2

\* The callee scan is at its end while the sender scan is in the middle of the
\* block, with open victims lists in both
C19_Witness ==
    /\ contracts_scan.pos = Len(tree)
    /\ senders_scan.pos > 0 /\ senders_scan.pos < Len(tree)
    /\ senders_scan.st.possible_sandwiches # EmptyMap
    /\ contracts_scan.st.possible_sandwiches # EmptyMap
    /\ senders_scan.st.possible_victims # contracts_scan.st.possible_victims

\* C20: for every emitted bundle, header.mev_tx_index (the index at which the
\* token deltas are priced) equals the block position of the bundle's
\* backrun_tx_hash, also for a bundle produced after one or more peel-off
\* steps, where the backrun is a former frontrun.  The recursive call of
\* calculate_sandwich receives idx unchanged (lines 185-201), so a bundle
\* returned after a peel-off carries the position of the candidate's original
\* backrun, set once at line 104.
C20_IndexIsBackrunPosition ==
    \A i \in 1..Len(results) :
        results[i].header.mev_tx_index = Pos(results[i].data.backrun_tx_hash)

\* C21 as stated: in every emitted bundle the swap lists are per transaction:
\* frontrun_swaps has one entry per entry of frontrun_tx_hash, frontrun_swaps[i]
\* holds the swaps of transaction frontrun_tx_hash[i] and backrun_swaps holds
\* the swaps of transaction backrun_tx_hash, also when a frontrun or the
\* backrun has no swap and no transfer.  The filter of lines 112-117 drops the
\* empty action lists, so the lists left no longer line up with the hashes.
C21_SwapListsPerTransaction ==
    \A i \in 1..Len(results) :
        LET d == results[i].data
        IN /\ Len(d.frontrun_swaps) = Len(d.frontrun_tx_hash)
           /\ \A j \in 1..Len(d.frontrun_tx_hash) :
                  d.frontrun_swaps[j] = SwapsOf(collect(tree, d.frontrun_tx_hash[j]))
           /\ d.backrun_swaps = SwapsOf(collect(tree, d.backrun_tx_hash))

\* The pools swapped on by the last list of the searcher actions of f, by the
\* lists before it, and by the victims of any group
BackrunPools(f) == Pools(SwapsOf(Last(f.searcher_actions)))

FrontrunPools(f) == Pools(SwapsOf(Flatten(Front(f.searcher_actions))))

VictimPools(f) == Pools(SwapsOf(Flatten(Flatten(f.victim_actions))))

\* C22: has_pool_overlap returns true if and only if some backrun swap's pool
\* is the pool of a swap of some frontrun and also the pool of a swap of some
\* victim, over the union of all legs; and when it returns true at the first
\* call, that call is the only one and the bundle keeps all the candidate's
\* frontruns, its victims groups and its original backrun.
C22_OverlapOverAllLegs ==
    /\ (pc = "calc" /\ call.searcher_actions # <<>>) =>
           (OverlapOf(call) <=>
               BackrunPools(call) \cap FrontrunPools(call) \cap VictimPools(call) # {})
    /\ \A k \in Taken :
           LET c == candidates[k]
           IN (Inspect(tree, c).kind = "call" /\ OverlapOf(FirstFrame(c))) =>
                 /\ log[k].calls = 1
                 /\ k \in Emitted =>
                       /\ BundleOf(k).data.frontrun_tx_hash = c.possible_frontruns
                       /\ BundleOf(k).data.backrun_tx_hash = c.possible_backrun
                       /\ BundleOf(k).data.victim_swaps_tx_hashes = c.victims

\* A bundle of two frontruns was emitted at the first call although no leg has
\* a pool of its own frontrun, of its own victims and of the backrun: the pool
\* is one of a frontrun of one leg and of a victim of another
C22_Witness ==
    \E k \in Emitted :
        LET f == log[k].frame
        IN /\ log[k].calls = 1
           /\ Len(f.possible_front_runs) = 2
           /\ Len(f.searcher_actions) = 3
           /\ \A g \in 1..2 :
                  BackrunPools(f) \cap Pools(SwapsOf(f.searcher_actions[g]))
                      \cap Pools(SwapsOf(Flatten(f.victim_actions[g]))) = {}
           /\ Pools(SwapsOf(f.searcher_actions[1])) # Pools(SwapsOf(f.searcher_actions[2]))

\* The senders of the roots of the block, reverted or not
Senders == {tree[i].address : i \in 1..Len(tree)}

\* The hashes of the reverted roots
RevertedHashes == {tree[i].tx_hash : i \in {j \in 1..Len(tree) : tree[j].revert}}

\* C23: for each sender with n >= 2 non-reverted transactions t1 < ... < tn the
\* sender scan returns exactly one candidate, with eoa that sender,
\* possible_frontruns [t1, ..., t(n-1)] and possible_backrun tn, also when
\* transactions of the sender are adjacent (empty victims group); it returns
\* no candidate for a sender with fewer than 2 non-reverted transactions, and
\* no reverted root is a frontrun, a backrun or a victim of a candidate.
C23_SenderScanCandidates ==
    result_senders # Nothing =>
        /\ Len(result_senders[1]) = Cardinality(OfSenderScan)
        /\ \A c \in OfSenderScan : c.eoa \in Senders
        /\ \A a \in Senders :
               LET R == RootsOfSender(a)
                   of_a == {c \in OfSenderScan : c.eoa = a}
               IN IF Cardinality(R) >= 2
                  THEN /\ Cardinality(of_a) = 1
                       /\ \A c \in of_a :
                              /\ c.possible_frontruns \o <<c.possible_backrun>> = HashesOf(R, 1)
                              /\ Len(c.possible_frontruns) = Cardinality(R) - 1
                  ELSE of_a = {}
        /\ \A c \in OfSenderScan : HashesIn(c) \cap RevertedHashes = {}

\* The sender scan has returned a candidate of three frontruns with an empty
\* victims group, for a sender that also has a reverted transaction before
\* the backrun
C23_Witness ==
    /\ result_senders # Nothing
    /\ \E c \in OfSenderScan :
           /\ Len(c.possible_frontruns) = 3
           /\ \E g \in 1..3 : c.victims[g] = <<>>
           /\ \E i \in 1..Len(tree) :
                  /\ tree[i].revert /\ tree[i].address = c.eoa
                  /\ i - 1 < Pos(c.possible_backrun)

\* The sender scan has returned no candidate for a sender whose transactions
\* are all reverted but one
C23_WitnessSingleLeft ==
    /\ result_senders # Nothing
    /\ OfSenderScan = {}
    /\ \E a \in Senders :
           Cardinality({i \in 1..Len(tree) : tree[i].address = a}) >= 3
           /\ Cardinality(RootsOfSender(a)) = 1

\* The sender of the transaction with hash h
SenderOf(h) == get_root(tree, h).address

\* C24: in every candidate of the callee scan, eoa is the sender of the first
\* non-reverted transaction of the block that calls that contract, the signer
\* of possible_frontruns[0]; later transactions to the same contract from
\* other senders do not change it.
C24_CalleeScanEoaIsFirstSender ==
    result_contracts # Nothing =>
        \A c \in OfCalleeScan :
            /\ c.eoa = SenderOf(c.possible_frontruns[1])
            /\ c.eoa = tree[Nth(RootsOfCallee(c.mev_executor_contract), 1)].address

\* The callee scan has returned a candidate of two frontruns whose second
\* frontrun and backrun are signed by senders other than its eoa, for a
\* contract first called by a reverted transaction of yet another sender
C24_Witness ==
    /\ result_contracts # Nothing
    /\ \E c \in OfCalleeScan :
           /\ Len(c.possible_frontruns) = 2
           /\ SenderOf(c.possible_frontruns[2]) # c.eoa
           /\ SenderOf(c.possible_backrun) # c.eoa
           /\ \E i \in 1..Len(tree) :
                  /\ tree[i].revert /\ tree[i].to = c.mev_executor_contract
                  /\ tree[i].address # c.eoa
                  /\ i - 1 < Pos(c.possible_frontruns[1])

\* The callee of the transaction with hash h
CalleeOf(h) == get_root(tree, h).to

\* Every candidate the sender scan holds before a step is still held after it,
\* with the same eoa and mev_executor_contract, either untouched or extended:
\* its former backrun appended to possible_frontruns, the root of the step as
\* possible_backrun, one more victims group
SenderCandidatesKeepContract ==
    LET old == senders_scan.st.possible_sandwiches
        new == senders_scan'.st.possible_sandwiches
    IN \A k \in DOMAIN old :
          /\ k \in DOMAIN new
          /\ new[k].eoa = old[k].eoa
          /\ new[k].mev_executor_contract = old[k].mev_executor_contract
          /\ \/ new[k] = old[k]
             \/ /\ new[k].possible_frontruns =
                       Append(old[k].possible_frontruns, old[k].possible_backrun)
                /\ new[k].possible_backrun = tree[senders_scan'.pos].tx_hash
                /\ Len(new[k].victims) = Len(old[k].victims) + 1
                /\ SubSeq(new[k].victims, 1, Len(old[k].victims)) = old[k].victims

\* C25: in every candidate of the sender scan, mev_executor_contract is the
\* to_address of the root being processed when the candidate is created, the
\* sender's second non-reverted transaction and not the first frontrun; later
\* transactions of the sender update possible_frontruns, possible_backrun and
\* victims and leave mev_executor_contract and eoa unchanged.
C25_SenderScanContractOfSecondTx ==
    /\ [](\A k \in DOMAIN senders_scan.st.possible_sandwiches :
             LET c == senders_scan.st.possible_sandwiches[k]
             IN /\ c.eoa = k
                /\ c.eoa = SenderOf(c.possible_frontruns[1])
                /\ c.mev_executor_contract = tree[Nth(RootsOfSender(k), 2)].to
                /\ Len(c.possible_frontruns) >= 2 =>
                       c.mev_executor_contract = CalleeOf(c.possible_frontruns[2]))
    /\ [][SenderCandidatesKeepContract]_vars

\* The sender scan has returned a candidate of two frontruns whose contract is
\* the callee of its second frontrun, and neither the callee of its first
\* frontrun nor that of its backrun
C25_Witness ==
    /\ result_senders # Nothing
    /\ \E c \in OfSenderScan :
           /\ Len(c.possible_frontruns) = 2
           /\ c.mev_executor_contract = CalleeOf(c.possible_frontruns[2])
           /\ c.mev_executor_contract # CalleeOf(c.possible_frontruns[1])
           /\ c.mev_executor_contract # CalleeOf(c.possible_backrun)

\* The tree t with the sender of every root replaced by its to_address
KeyedByCallee(t) == [i \in 1..Len(t) |-> [t[i] EXCEPT !.address = t[i].to]]

\* A candidate without its eoa
NoEoa(c) == <<c.possible_frontruns, c.possible_backrun, c.mev_executor_contract, c.victims>>

\* C26: the callee scan is the sender scan with the key changed: on a tree T it
\* holds after every root, and returns, the candidates of the sender scan run
\* on T with each root's sender replaced by its to_address, equal in
\* possible_frontruns, possible_backrun, victims and contract; only eoa differs.
C26_CalleeScanIsSenderScanRekeyed ==
    LET s == SenderScan(KeyedByCallee(tree), contracts_scan.pos)
        c == contracts_scan.st
    IN /\ c.possible_victims = s.possible_victims
       /\ DOMAIN c.possible_sandwiches = DOMAIN s.possible_sandwiches
       /\ \A k \in DOMAIN c.possible_sandwiches :
              NoEoa(c.possible_sandwiches[k]) = NoEoa(s.possible_sandwiches[k])
       /\ DOMAIN c.duplicates = DOMAIN s.duplicates
       /\ \A k \in DOMAIN c.duplicates : c.duplicates[k][1] = s.duplicates[k]
       /\ result_contracts # Nothing =>
              LET of_senders == Values(SenderScan(KeyedByCallee(tree),
                                                  Len(tree)).possible_sandwiches)
              IN /\ {NoEoa(x) : x \in OfCalleeScan} = {NoEoa(x) : x \in of_senders}
                 /\ Cardinality(OfCalleeScan) = Cardinality(of_senders)
                 /\ Len(result_contracts[1]) = Cardinality(of_senders)

\* The callee scan has returned a candidate of two frontruns with a victim,
\* whose transactions are signed by three senders, while the sender scan of
\* the tree itself has no candidate
C26_Witness ==
    /\ result_contracts # Nothing
    /\ SenderScan(tree, Len(tree)).possible_sandwiches = EmptyMap
    /\ \E c \in OfCalleeScan :
           /\ Len(c.possible_frontruns) = 2
           /\ Flatten(c.victims) # <<>>
           /\ Cardinality({SenderOf(h) :
                              h \in Range(c.possible_frontruns) \cup {c.possible_backrun}}) = 3
           /\ c.eoa # c.mev_executor_contract

\* The victims of group g of the candidate c that have no swap and no transfer
EmptyVictims(c, g) == {v \in Range(c.victims[g]) : collect(tree, v) = <<>>}

\* The pools the transaction with hash h swaps on
PoolsOfTx(h) == Pools(SwapsOf(collect(tree, h)))

\* C27: a candidate with a victim, in any victims group, that has no swap and
\* no transfer action yields no bundle; it is rejected before the overlap
\* test, with no call of calculate_sandwich, also when the victim belongs to
\* the last group, which a peel-off would have discarded.
C27_EmptyVictimRejectsCandidate ==
    /\ \A k \in Taken :
           (\E g \in 1..Len(candidates[k].victims) : EmptyVictims(candidates[k], g) # {})
               => log[k].calls = 0 /\ log[k].out = 0
    /\ (pc = "calc" /\ next <= Len(candidates)) =>
           \A g \in 1..Len(candidates[next].victims) : EmptyVictims(candidates[next], g) = {}

\* A candidate of two frontruns was rejected without a call for a victim of
\* its last group only, while its first frontrun, a victim of its first group
\* and its last frontrun swap on a pool its backrun does not swap on, so that
\* the candidate without its last group has a pool overlap
C27_Witness ==
    \E k \in Taken :
        LET c == candidates[k]
        IN /\ Len(c.possible_frontruns) = 2
           /\ EmptyVictims(c, 2) # {}
           /\ EmptyVictims(c, 1) = {}
           /\ ~HasOwnProbe(c)
           /\ \E v \in Range(c.victims[1]) :
                  PoolsOfTx(c.possible_frontruns[1]) \cap PoolsOfTx(v)
                      \cap PoolsOfTx(c.possible_frontruns[2]) # {}
           /\ PoolsOfTx(c.possible_backrun) \cap PoolsOfTx(c.possible_frontruns[1]) = {}
           /\ log[k].calls = 0

\* The action a with other tokens and amounts, on the same pool and between
\* the same addresses; the tokens have no price
OtherFlow(a) ==
    CASE is_swap(a)     -> Swap(a.pool, "T4", "T5", a.amount_in + 7, a.amount_out + 3)
      [] is_transfer(a) -> Transfer(a.from, a.to, "T4", a.amount + 5)
      [] OTHER          -> a

\* The tree with other token flows in the transactions hs
WithOtherFlows(hs) ==
    [i \in 1..Len(tree) |->
        IF tree[i].tx_hash \in hs
        THEN [tree[i] EXCEPT !.actions = [j \in 1..Len(@) |-> OtherFlow(@[j])]]
        ELSE tree[i]]

\* calculate_sandwich with its recursive calls: "none" or "some" with the bundle
RECURSIVE CalcResult(_, _)
CalcResult(f, metadata) ==
    LET r == calculate_sandwich(f, metadata)
    IN IF r.kind = "recurse" THEN CalcResult(r.frame, metadata) ELSE r

\* What the closure of process_tree returns for the candidate c on the tree t
ClosureResult(t, c) ==
    IF Inspect(t, c).kind = "call" THEN CalcResult(Inspect(t, c).frame, meta)
    ELSE [kind |-> "none"]

\* Two results of the closure agree: both None, or bundles of the same
\* profit, bribe and profit collectors
SameScore(r1, r2) ==
    /\ r1.kind = r2.kind
    /\ r1.kind = "some" =>
           /\ r1.bundle.header.finalized_profit_usd = r2.bundle.header.finalized_profit_usd
           /\ r1.bundle.header.finalized_bribe_usd = r2.bundle.header.finalized_bribe_usd
           /\ r1.bundle.header.mev_profit_collector = r2.bundle.header.mev_profit_collector

\* The lists of s that are not empty
NonEmpty(s) == SelectSeq(s, LAMBDA x : x # <<>>)

\* C28: the token flows of the victims do not enter the profit: the candidate
\* taken, and the same candidate on the tree in which its victims swap on the
\* same pools with other tokens and amounts, give bundles of the same profit,
\* bribe and profit collectors; after a peel-off the actions of the discarded
\* backrun do not enter the deltas either: other flows in the discarded backrun
\* leave the result as it is, and the deltas are taken over action lists of
\* the transactions of the bundle only.
C28_VictimFlowsDoNotEnterProfit ==
    \A k \in Taken :
        LET c == candidates[k]
            r == ClosureResult(tree, c)
        IN /\ (k \in Emitted) = (r.kind = "some")
           /\ k \in Emitted => BundleOf(k) = r.bundle
           /\ SameScore(r, ClosureResult(WithOtherFlows(Range(Flatten(c.victims))), c))
           /\ log[k].calls >= 2 =>
                  /\ SameScore(r, ClosureResult(WithOtherFlows({c.possible_backrun}), c))
                  /\ k \in Emitted =>
                         LET own == NonEmpty([i \in 1..Len(SearcherTxs(BundleOf(k))) |->
                                                 collect(tree, SearcherTxs(BundleOf(k))[i])])
                         IN /\ Len(log[k].frame.searcher_actions) <= Len(own)
                            /\ log[k].frame.searcher_actions =
                                   SubSeq(own, 1, Len(log[k].frame.searcher_actions))

\* A bundle was emitted for a candidate whose victims swap and transfer, and
\* the same candidate with other victim flows gives a bundle too
C28_Witness ==
    \E k \in Emitted :
        LET c == candidates[k]
            other == WithOtherFlows(Range(Flatten(c.victims)))
        IN /\ \E v \in Range(Flatten(c.victims)) :
                  \E a \in Range(collect(tree, v)) : is_transfer(a)
           /\ other # tree
           /\ ClosureResult(other, c).kind = "some"
           /\ ClosureResult(other, c).bundle.data.victim_swaps # BundleOf(k).data.victim_swaps

\* A bundle was emitted after a peel-off that discarded a backrun with swaps
C28_WitnessAfterPeel ==
    \E k \in Emitted :
        /\ log[k].calls >= 2
        /\ SwapsOf(collect(tree, candidates[k].possible_backrun)) # <<>>
        /\ WithOtherFlows({candidates[k].possible_backrun}) # tree

\* The calls of calculate_sandwich for the candidate in hand: the running
\* call has one possible frontrun fewer per call that came before it, so that
\* a candidate of n possible frontruns has at most n calls
CallsBounded ==
    /\ pc = "calc" =>
           /\ Len(call.possible_front_runs) =
                  Len(candidates[next].possible_frontruns) - log[next].calls
           /\ log[next].calls + 1 <= Len(candidates[next].possible_frontruns)
    /\ \A k \in Taken :
           /\ log[k].calls <= Len(candidates[k].possible_frontruns)
           /\ log[k].calls >= 1 =>
                  Len(log[k].frame.possible_front_runs) =
                      Len(candidates[k].possible_frontruns) - (log[k].calls - 1)

\* A recursive call has one possible frontrun fewer than its caller
RecursionShrinks ==
    (pc = "calc" /\ pc' = "calc" /\ call' # call) =>
        /\ next' = next
        /\ Len(call'.possible_front_runs) = Len(call.possible_front_runs) - 1
        /\ Len(call'.possible_front_runs) >= 1

\* process_tree is never stuck before it returns: the closure and
\* calculate_sandwich have an outcome for the candidate in hand
NeverStuck ==
    /\ pc \in {"enumerate", "inspect", "calc", "done"}
    /\ pc = "inspect" =>
           /\ next <= Len(candidates)
           /\ Inspect(tree, candidates[next]).kind \in {"none", "call"}
    /\ pc = "calc" =>
           /\ call # None
           /\ next <= Len(candidates)
           /\ calculate_sandwich(call, meta).kind \in {"none", "recurse", "some"}

\* The steps a candidate can take: one of the closure and one per possible
\* frontrun
StepsOf(c) == 1 + Len(c.possible_frontruns)

\* An upper bound of the number of steps process_tree has left
StepsLeft ==
    LET later(from) == SumSeq([k \in 1..Len(candidates) |->
                                  IF k >= from THEN StepsOf(candidates[k]) ELSE 0])
    IN CASE pc = "enumerate" ->
                2 * Len(tree) * (Len(tree) + 1) + 1
                    + (IF result_senders = Nothing THEN 1 ELSE 0)
                    + (IF result_contracts = Nothing THEN 1 ELSE 0)
         [] pc = "inspect" -> later(next)
         [] pc = "calc" ->
                later(next + 1) + Len(candidates[next].possible_frontruns) - log[next].calls
         [] OTHER -> 0

\* C29: calculate_sandwich terminates for every candidate: each recursive call
\* has one frontrun fewer, a candidate with n possible frontruns causes at
\* most n calls, hence at most n overlap tests and n-1 recursive calls, and
\* process_tree returns for every tree: it is never stuck before it is done,
\* and every step lowers a bound of the steps left that is 0 only when done.
C29_ProcessTreeTerminates ==
    /\ [](CallsBounded /\ NeverStuck)
    /\ [](StepsLeft >= 0 /\ (StepsLeft = 0) = (pc = "done"))
    /\ [][RecursionShrinks /\ StepsLeft' < StepsLeft]_vars

\* process_tree has returned after three overlap tests for a candidate of
\* three possible frontruns
C29_Witness ==
    /\ pc = "done"
    /\ \E k \in Taken :
           /\ Len(candidates[k].possible_frontruns) = 3
           /\ log[k].calls = 3
           /\ Len(log[k].frame.possible_front_runs) = 1
           /\ log[k].frame.searcher_actions # <<>>

\* The sum of gas_paid() over the frontruns and the backrun of the last call
\* of calculate_sandwich for candidate k leaves the range of a u128
GasOverflows(k) ==
    /\ log[k].frame # None
    /\ sum_u128_overflows(SearcherGas(log[k].frame))

\* C30: if the sum of gas_paid() over a candidate's frontrun and backrun
\* transactions exceeds the range of the 128-bit accumulator, only that
\* candidate fails: process_tree does not panic, no bundle is emitted for the
\* candidate, no emitted bribe is a sum taken modulo 2^128, and every other
\* candidate is processed and emitted as it is without the overflow.
C30_OverflowFailsOnlyTheCandidate ==
    /\ pc # "panic"
    /\ \A k \in Emitted :
           /\ ~GasOverflows(k)
           /\ BundleOf(k).header.finalized_bribe_usd =
                  to_float(get_gas_price_usd(meta, SumSeq(SearcherGas(log[k].frame))))
    /\ pc = "done" =>
           /\ Len(log) = Len(candidates)
           /\ \A k \in 1..Len(log) :
                  (~GasOverflows(k) /\ ClosureResult(tree, candidates[k]).kind = "some")
                      => log[k].out > 0

\* The block position of the root at which a scan inserted the candidate c:
\* the second transaction of its key
CreatedAt(c) ==
    IF Len(c.possible_frontruns) >= 2 THEN Pos(c.possible_frontruns[2])
    ELSE Pos(c.possible_backrun)

\* The candidates of the list are in the order in which they were created
InCreationOrder(order) ==
    \A i, j \in 1..Len(order) : i < j => CreatedAt(order[i]) < CreatedAt(order[j])

\* C31: the list of candidates returned by a single scan (sender scan or
\* callee scan) is in transaction position order: the candidates come out
\* ordered by the block position at which they were created, whatever the
\* iteration order of the scan's map.
C31_ScanResultInPositionOrder ==
    /\ result_senders # Nothing => InCreationOrder(result_senders[1])
    /\ result_contracts # Nothing => InCreationOrder(result_contracts[1])

\* The overlap test of the call of calculate_sandwich that has the first m
\* possible frontruns of the candidate c, read from the tree: the call is
\* reached with a non-empty searcher_actions and the test passes
OverlapAt(c, m) ==
    LET first == FirstFrame(c).searcher_actions
        sa == SubSeq(first, 1, Len(first) - (Len(c.possible_frontruns) - m))
        va == [i \in 1..m |-> [j \in 1..Len(c.victims[i]) |->
                                   collect(tree, c.victims[i][j])]]
    IN /\ sa # <<>>
       /\ has_pool_overlap([i \in 1..Len(sa) - 1 |-> SwapsOf(sa[i])], SwapsOf(Last(sa)), va)

\* The pools of the swaps of the transaction h
SwapPoolsOf(h) == Pools(SwapsOf(collect(tree, h)))

\* C32: the frontrun_tx_hash of an emitted bundle is a non-empty prefix
\* [f1..fm] of the candidate's possible_frontruns, backrun_tx_hash is the
\* candidate's backrun (m = n) or f(m+1) (m < n) and victim_swaps_tx_hashes is
\* the first m victims groups; the overlap test passes for m and fails for
\* every length above m, so that only the tail is removed and no frontrun of
\* [f1..fm] is ever removed, whatever its pools.
C32_BundleIsLongestPassingPrefix ==
    \A k \in Emitted :
        LET c == candidates[k]
            d == BundleOf(k).data
            n == Len(c.possible_frontruns)
            m == Len(d.frontrun_tx_hash)
        IN /\ 1 <= m /\ m <= n
           /\ d.frontrun_tx_hash = SubSeq(c.possible_frontruns, 1, m)
           /\ d.backrun_tx_hash =
                  IF m = n THEN c.possible_backrun ELSE c.possible_frontruns[m + 1]
           /\ d.victim_swaps_tx_hashes = SubSeq(c.victims, 1, m)
           /\ log[k].calls = n - m + 1
           /\ OverlapAt(c, m)
           /\ \A j \in m + 1..n : ~OverlapAt(c, j)

\* A bundle was emitted after a peel-off and it keeps a frontrun that shares
\* no pool with a victim or with the backrun
C32_Witness ==
    \E k \in Emitted :
        LET c == candidates[k]
            d == BundleOf(k).data
        IN /\ Len(d.frontrun_tx_hash) < Len(c.possible_frontruns)
           /\ \E i \in 1..Len(d.frontrun_tx_hash) :
                  /\ SwapPoolsOf(d.frontrun_tx_hash[i]) # {}
                  /\ SwapPoolsOf(d.frontrun_tx_hash[i]) \cap SwapPoolsOf(d.backrun_tx_hash) = {}
                  /\ \A v \in VictimsOf(d) :
                         SwapPoolsOf(d.frontrun_tx_hash[i]) \cap SwapPoolsOf(v) = {}

\* A bundle emitted at the first overlap test keeps a frontrun, neither the
\* first nor the last, that shares no pool with a victim or with the backrun
C32_WitnessMiddle ==
    \E k \in Emitted :
        LET d == BundleOf(k).data
        IN \E i \in 2..Len(d.frontrun_tx_hash) - 1 :
              /\ SwapPoolsOf(d.frontrun_tx_hash[i]) # {}
              /\ SwapPoolsOf(d.frontrun_tx_hash[i]) \cap SwapPoolsOf(d.backrun_tx_hash) = {}
              /\ \A v \in VictimsOf(d) :
                     SwapPoolsOf(d.frontrun_tx_hash[i]) \cap SwapPoolsOf(v) = {}

\* The searcher's transactions of the bundle data d: the frontruns, then the
\* backrun
AttackOf(d) == d.frontrun_tx_hash \o <<d.backrun_tx_hash>>

\* C33: in every emitted bundle the transactions of frontrun_tx_hash are in
\* strictly increasing block position, the backrun is after all of them, and
\* every transaction of victim_swaps_tx_hashes[i] lies strictly between
\* frontrun i and frontrun i+1 (the backrun for the last i); hence every
\* victim lies strictly between the first frontrun and the backrun, and at
\* least one victims group is non-empty.
C33_GroupsLieBetweenTheirFrontruns ==
    \A k \in Emitted :
        LET d == BundleOf(k).data
            atk == AttackOf(d)
        IN /\ Len(d.victim_swaps_tx_hashes) = Len(d.frontrun_tx_hash)
           /\ \A i \in 1..Len(atk) - 1 : Pos(atk[i]) < Pos(atk[i + 1])
           /\ \A f \in Range(d.frontrun_tx_hash) : Pos(f) < Pos(d.backrun_tx_hash)
           /\ \A i \in 1..Len(d.victim_swaps_tx_hashes) :
                  \A v \in Range(d.victim_swaps_tx_hashes[i]) :
                      /\ Pos(atk[i]) < Pos(v) /\ Pos(v) < Pos(atk[i + 1])
                      /\ Pos(atk[1]) < Pos(v) /\ Pos(v) < Pos(d.backrun_tx_hash)
           /\ \E i \in 1..Len(d.victim_swaps_tx_hashes) : d.victim_swaps_tx_hashes[i] # <<>>

\* A bundle of two frontruns was emitted whose first victims group is empty
\* and whose second one holds two victims
C33_Witness ==
    \E k \in Emitted :
        LET d == BundleOf(k).data
        IN /\ Len(d.frontrun_tx_hash) = 2
           /\ d.victim_swaps_tx_hashes[1] = <<>>
           /\ Len(d.victim_swaps_tx_hashes[2]) = 2

\* The test of the victims' revert flag in the closure of process_tree fires
\* for the candidate c
RevertTestFires(c) == \E v \in Range(Flatten(c.victims)) : get_root(tree, v).revert

\* C34: no reverted transaction appears in a candidate, as frontrun, backrun
\* or victim, of either scan (after any number of roots) or of their union,
\* so the victim-is-reverted rejection of process_tree never fires for a
\* candidate of get_possible_sandwich.
C34_NoRevertedTransactionInCandidate ==
    /\ \A c \in OfSenderScan \cup OfCalleeScan \cup Range(candidates) :
           /\ \A h \in HashesIn(c) : get_root(tree, h) # None /\ ~get_root(tree, h).revert
           /\ ~RevertTestFires(c)
    /\ (pc = "enumerate" /\ result_senders = Nothing /\ result_contracts = Nothing) =>
           \A n \in 0..Len(tree) :
               \A c \in Values(SenderScan(tree, n).possible_sandwiches)
                       \cup Values(ContractScan(tree, n).possible_sandwiches) :
                   \A h \in HashesIn(c) : ~get_root(tree, h).revert

\* The closure has taken a candidate of a block in which a reverted
\* transaction of the searcher lies between the candidate's first frontrun and
\* its backrun
C34_Witness ==
    \E k \in Taken :
        \E i \in 1..Len(tree) :
            /\ tree[i].revert
            /\ tree[i].address = candidates[k].eoa
            /\ Pos(candidates[k].possible_frontruns[1]) < tree[i].position
            /\ tree[i].position < Pos(candidates[k].possible_backrun)

\* The hashes the candidate c lists, one entry per place in its lists
ListedIn(c) == c.possible_frontruns \o <<c.possible_backrun>> \o Flatten(c.victims)

\* The test of the victims' to_address in the closure of process_tree fires
\* for the candidate c
ContractTestFires(c) ==
    \E v \in Range(Flatten(c.victims)) : get_root(tree, v).to = c.mev_executor_contract

\* C35: in every candidate the hashes of possible_frontruns, possible_backrun
\* and of the victims groups are pairwise distinct; no victim of a candidate
\* of the sender scan is sent by the candidate's eoa and no victim of a
\* candidate of the callee scan has the candidate's mev_executor_contract as
\* to_address, so the victim-targets-attacker-contract rejection fires for
\* candidates of the sender scan only.
C35_CandidateHashesDistinct ==
    /\ \A c \in AllCandidates :
           \A i, j \in 1..Len(ListedIn(c)) : i # j => ListedIn(c)[i] # ListedIn(c)[j]
    /\ \A c \in OfSenderScan :
           \A v \in Range(Flatten(c.victims)) : get_root(tree, v).address # c.eoa
    /\ \A c \in OfCalleeScan : ~ContractTestFires(c)
    /\ \A k \in 1..Len(candidates) :
           ContractTestFires(candidates[k]) =>
               candidates[k] \in OfSenderScan /\ candidates[k] \notin OfCalleeScan

\* The closure rejected a candidate of the sender scan, with two victims in
\* its lists, for a victim that calls the candidate's contract
C35_Witness ==
    \E k \in Taken :
        /\ candidates[k] \in OfSenderScan
        /\ ContractTestFires(candidates[k])
        /\ Len(Flatten(candidates[k].victims)) >= 2
        /\ log[k].calls = 0

\* The senders (by_sender) or the callees of the block with at least two
\* transactions that did not revert
KeysTwice(by_sender) ==
    LET key(i) == IF by_sender THEN tree[i].address ELSE tree[i].to
        live == {i \in 1..Len(tree) : ~tree[i].revert}
    IN {key(i) : i \in {x \in live : \E y \in live : y # x /\ key(y) = key(x)}}

\* The bound of C36 on the number of bundles of the block
MostBundles == Cardinality(KeysTwice(TRUE)) + Cardinality(KeysTwice(FALSE))

\* C36: each scan returns at most one candidate per key (the eoa for the
\* sender scan, the contract for the callee scan), so that process_tree emits
\* at most as many bundles as there are senders with two or more non-reverted
\* transactions plus callees with two or more non-reverted transactions, and
\* each candidate yields at most one bundle.
C36_AtMostOneCandidatePerKey ==
    /\ result_senders # Nothing =>
           /\ \A i, j \in 1..Len(result_senders[1]) :
                  result_senders[1][i].eoa = result_senders[1][j].eoa => i = j
           /\ {c.eoa : c \in OfSenderScan} \subseteq KeysTwice(TRUE)
           /\ Len(result_senders[1]) <= Cardinality(KeysTwice(TRUE))
    /\ result_contracts # Nothing =>
           /\ \A i, j \in 1..Len(result_contracts[1]) :
                  result_contracts[1][i].mev_executor_contract =
                      result_contracts[1][j].mev_executor_contract => i = j
           /\ {c.mev_executor_contract : c \in OfCalleeScan} \subseteq KeysTwice(FALSE)
           /\ Len(result_contracts[1]) <= Cardinality(KeysTwice(FALSE))
    /\ Len(candidates) <= MostBundles
    /\ Len(results) <= MostBundles
    /\ Len(results) = Cardinality(Emitted)
    /\ \A j, k \in Emitted : log[j].out = log[k].out => j = k

\* process_tree has emitted the bundles of two searchers, one per candidate
\* of the sender scan
C36_Witness ==
    /\ pc = "done"
    /\ result_senders # Nothing
    /\ Len(result_senders[1]) = 2
    /\ Len(results) = 2
    /\ results[1].header.eoa # results[2].header.eoa

\* C37: on a tree whose transaction hashes are unique process_tree never
\* panics: every hash of every candidate resolves in the tree, so that the
\* get_root(..).unwrap() calls of the closure succeed, and
\* possible_front_runs[0] is in bounds in every call of calculate_sandwich and
\* whenever a bundle is materialized, after peel-off steps too.
C37_ProcessTreeNeverPanics ==
    /\ pc # "panic"
    /\ \A c \in AllCandidates : ~LookupFails(c)
    /\ pc = "inspect" => Inspect(tree, candidates[next]).kind # "panic"
    /\ pc = "calc" => call.possible_front_runs # <<>>
    /\ \A k \in Emitted :
           /\ log[k].frame.possible_front_runs # <<>>
           /\ BundleOf(k).header.tx_hash = log[k].frame.possible_front_runs[1]

\* The roots (indexes in tx_roots) among the first n that did not revert
LiveUpTo(n) == {i \in 1..n : ~tree[i].revert}

\* The last root of each key among the first n roots that did not revert; the
\* key is the sender (by_sender) or the callee
LatestOfKeys(n, by_sender) ==
    LET key(i) == IF by_sender THEN tree[i].address ELSE tree[i].to
    IN {i \in LiveUpTo(n) : \A j \in LiveUpTo(n) : key(j) = key(i) => j <= i}

\* possible_victims of a scan that is done with n roots is as C38 says
VictimsMapIs(pv, n, by_sender) ==
    /\ DOMAIN pv = {tree[i].tx_hash : i \in LatestOfKeys(n, by_sender)}
    /\ \A i \in LatestOfKeys(n, by_sender) :
           pv[tree[i].tx_hash] = HashesOf({x \in LiveUpTo(n) : x > i}, 1)

\* C38: after each root processed by either scan the keys of possible_victims
\* are exactly the latest non-reverted transaction hash of each key (sender or
\* callee) seen so far, one per key, and the list under each key holds, in
\* position order, exactly the non-reverted transactions processed after that
\* key's transaction.
C38_PossibleVictimsHoldsLaterRoots ==
    /\ VictimsMapIs(senders_scan.st.possible_victims, senders_scan.pos, TRUE)
    /\ VictimsMapIs(contracts_scan.st.possible_victims, contracts_scan.pos, FALSE)

\* Both scans are done with four roots, one of them reverted; the sender scan
\* holds two open lists, one of two later roots, and the callee scan three
C38_Witness ==
    /\ senders_scan.pos = 4 /\ contracts_scan.pos = 4
    /\ \E i \in 1..4 : tree[i].revert
    /\ Cardinality(DOMAIN senders_scan.st.possible_victims) = 2
    /\ \E h \in DOMAIN senders_scan.st.possible_victims :
           Len(senders_scan.st.possible_victims[h]) = 2
    /\ Cardinality(DOMAIN contracts_scan.st.possible_victims) = 3

\* C39: for each of the 13 Protocol variants decoding the encoding returns the
\* variant, decompressing the compressed value returns it too, and the 13
\* variants encode to the 13 distinct integers 0..12.
C39_ProtocolRoundTrip ==
    /\ Len(ProtocolVariants) = 13
    /\ \A i, j \in 1..13 : ProtocolVariants[i] = ProtocolVariants[j] => i = j
    /\ {EncodeInt(ProtocolVariants[i]) : i \in 1..13} = 0..12
    /\ \A i \in 1..13 :
           LET p == ProtocolVariants[i]
           IN /\ Protocol_decode(Protocol_encode(p, <<>>)) = [kind |-> "ok", protocol |-> p]
              /\ decompress(compress_to_buf(p, <<>>)) = [kind |-> "ok", protocol |-> p]
    /\ (codec.stage = "encoded" /\ codec.protocol # NoProtocol) =>
           rlp_decode_u64(codec.buf) =
               [ok |-> TRUE, value |-> EncodeInt(codec.protocol), rest |-> <<>>]
    /\ (codec.stage = "decoded" /\ codec.protocol # NoProtocol) =>
           codec.result = [kind |-> "ok", protocol |-> codec.protocol]

\* UniswapV2, whose encoding is the one byte 0x80 and not its integer 0, came
\* back from decompress
C39_Witness ==
    /\ codec.stage = "decoded" /\ codec.via = "db"
    /\ codec.protocol = "UniswapV2"
    /\ codec.buf = <<128>>
    /\ codec.result = [kind |-> "ok", protocol |-> "UniswapV2"]

\* CurveV2PlainPool came back from decode, which read its one byte
C39_WitnessLast ==
    /\ codec.stage = "decoded" /\ codec.via = "rlp"
    /\ codec.protocol = "CurveV2PlainPool"
    /\ codec.buf = <<>>
    /\ codec.result = [kind |-> "ok", protocol |-> "CurveV2PlainPool"]

====
